---- MODULE Spec2Model ----
(***************************************************************************)
(* gittyfs: a git working tree mounted as a FUSE filesystem.               *)
(*                                                                         *)
(*   gittyfuse/gittydir.go   GittyDir (directory handlers) and GittyFile   *)
(*                           (buffered, dirty-tracked file handlers)       *)
(*   gittyfuse/fuse.go       Filesystem (root), traverseTree (mount walk)  *)
(*   manager/manager.go      Manager: NotifyChange, Run, SyncToGit         *)
(*                                                                         *)
(* The working tree (billy.Filesystem) and the inode table of go-fuse are  *)
(* libraries; they are modelled by the contract of the calls the handlers  *)
(* make on them.  Every call on the working tree that returns an error in  *)
(* the Go code can fail here, by an input of the action (fail flags).      *)
(* A path is the sequence of its components: filepath.Join(p, name) is     *)
(* Append(p, name) and the root path "" is << >>.                          *)
(***************************************************************************)
EXTENDS Integers, Sequences, FiniteSets, TLC

\* ---------------------------------------------------------------- bounds
NameSeq == <<"a", "b">>
Names == {NameSeq[i] : i \in 1..Len(NameSeq)}

MaxNodes == 5
MaxOps == 3
MaxFileOps == 3
MaxBufOps == 2
MaxOff == 2
MaxSize == 3
MaxRead == 2
\* manager side: callers of NotifyChange, events they emit, how long the clock runs
NumCallers == 2
\* the goroutines that call SyncToGit besides Run, and the calls they make
NumSyncCallers == 1
MaxSyncCalls == 1
\* the events emitted while SyncToGit is called from several goroutines
MaxLockEmit == 2
MaxLockFail == 1
MaxLockTime == 6
MaxEmit == 3
\* notifications emitted when time advances freely
MaxFreeEmit == 2
MaxTime == 9
\* handler calls made while the manager runs
MaxBusyOps == 2
\* handler calls that run at the same time, and calls made that way
NumThreads == 2
MaxConcOps == 3
\* a flood of the channel: events before it, events in all, failing steps, clock
MaxFloodLead == 1
MaxFloodEmit == 102
MaxFloodFail == 1
MaxFloodTime == 12
\* clock steps in a second
UnitsPerSecond == 2

TreeData == {<<1>>, <<2, 1>>}
\* the offsets the handlers get when the whole tree is explored
TreeOffs == {0, 1}
FileData == {<< >>, <<1>>, <<0>>, <<2, 1>>}

\* ---------------------------------------------------------------- errno
OK == "OK"
EIO == "EIO"
ENOENT == "ENOENT"
ENOTEMPTY == "ENOTEMPTY"
EXDEV == "EXDEV"
PANIC == "panic"

\* ---------------------------------------------------------------- maps
EmptyMap == [x \in {} |-> 0]
MapPut(m, k, v) == [x \in (DOMAIN m) \cup {k} |-> IF x = k THEN v ELSE m[x]]
MapDel(m, k) == [x \in (DOMAIN m) \ {k} |-> m[x]]
Min(a, b) == IF a < b THEN a ELSE b
Zeros(n) == [i \in 1..n |-> 0]
IsPrefix(p, q) == Len(p) <= Len(q) /\ SubSeq(q, 1, Len(p)) = p

VARIABLES
  \* filesystem side
  phase,      \* "new" after NewFilesystem, "mounted" after OnAdd, "crashed" after a panic
  kind,       \* node id -> "root" | "dir" | "file"  (Filesystem, GittyDir, GittyFile)
  path,       \* node id -> GittyDir.path / GittyFile.path
  content,    \* node id -> GittyFile.content
  dirty,      \* node id -> GittyFile.dirty
  children,   \* node id -> (name -> node id), the Inode children map
  wt,         \* the working tree: path -> [isDir, data]
  last,       \* the last handler call: arguments, errno, result, events it emitted
  nops,       \* handler calls made so far
  \* manager side
  changes,        \* Manager.changes, the buffered channel
  isDirty,        \* Manager.isDirty
  lastChangeTime, \* Manager.lastChangeTime
  now,            \* the clock
  tickReady,      \* a tick is waiting in ticker.C
  nextTick,       \* when the ticker fires next
  pcRun,          \* where Run is: "select", or the step of SyncToGit it is in
  stamped,        \* caller -> the notification NotifyChange has built and not yet sent
  hist,           \* what the manager did: counters of the run so far
  mgrMu,          \* who holds Manager.mu: Free, RunLoop, or a caller of SyncToGit
  runChange,      \* the notification Run has received and not yet recorded
  syncPc,         \* caller of SyncToGit -> where its call is, "idle" outside a call
  \* handler calls in progress
  thr,            \* thread -> the call it is in: handler, arguments, position, locals
  mu              \* node id -> the thread that holds GittyFile.mu, 0 when free

fsvars == <<phase, kind, path, content, dirty, children, wt, last, nops>>
mgrvars == <<isDirty, lastChangeTime, now, tickReady, nextTick, pcRun, stamped, hist, mgrMu, runChange, syncPc>>
convars == <<thr, mu>>
vars == <<fsvars, changes, mgrvars, convars>>

\* ------------------------------------------------- the working tree (wt)
DirEntry == [isDir |-> TRUE, data |-> << >>]
FileEntry(c) == [isDir |-> FALSE, data |-> c]

\* the checkouts the program is started on (git.Clone into memfs, cmd/main.go)
RepoEmpty == (<< >> :> DirEntry)
RepoSmall == (<< >> :> DirEntry) @@ (<<"a">> :> FileEntry(<<1, 2>>)) @@ (<<"b">> :> DirEntry) @@ (<<"b", "a">> :> FileEntry(<<2>>))
InitialRepos == {RepoEmpty, RepoSmall}
\* every checkout of depth two over Names whose files hold one of WalkData
WalkRepos ==
  LET WalkData == {<< >>, <<1>>, <<2, 1>>}
      WalkPaths == {<<n>> : n \in Names} \cup {<<n, m>> : n \in Names, m \in Names}
      WalkEntries == {DirEntry} \cup {FileEntry(c) : c \in WalkData}
      none == [isDir |-> TRUE, data |-> <<0>>]
      shapes == {sh \in [WalkPaths -> {none} \cup WalkEntries] :
                   \A q \in WalkPaths : (Len(q) = 2 /\ sh[q] # none) => sh[<<q[1]>>] = DirEntry}
  IN {[q \in {<< >>} \cup {r \in WalkPaths : sh[r] # none} |-> IF q = << >> THEN DirEntry ELSE sh[q]] :
        sh \in shapes}

WtHas(w, p) == p \in DOMAIN w
WtIsDir(w, p) == WtHas(w, p) /\ w[p].isDir
\* wt.ReadDir(p): the entries directly under p
WtReadDir(w, p) == {q \in DOMAIN w : Len(q) = Len(p) + 1 /\ IsPrefix(p, q)}
\* the parents a new entry at p needs: every proper prefix becomes a directory
WtParents(w, p) == [q \in {SubSeq(p, 1, i) : i \in 0..(Len(p) - 1)} \ DOMAIN w |-> DirEntry]
WtPut(w, p, e) == (p :> e) @@ w @@ WtParents(w, p)
\* wt.Create(p) and wt.OpenFile(p, O_WRONLY|O_CREATE|O_TRUNC) followed by Write(c)
WtWriteFile(w, p, c) == WtPut(w, p, FileEntry(c))
\* wt.MkdirAll(p): an existing directory is kept as it is
WtMkdirAll(w, p) == IF WtIsDir(w, p) THEN w ELSE WtPut(w, p, DirEntry)
\* wt.Remove(p)
WtRemove(w, p) == [q \in (DOMAIN w) \ {p} |-> w[q]]
\* wt.Rename(from, to): the entry and everything under it moves; what was at to is replaced
WtRename(w, from, to) ==
  LET moved == {q \in DOMAIN w : IsPrefix(from, q)}
      gone == {q \in DOMAIN w : IsPrefix(to, q)}
      dest(q) == to \o SubSeq(q, Len(from) + 1, Len(q))
      kept == [q \in (DOMAIN w) \ (moved \cup gone) |-> w[q]]
      new == [r \in {dest(q) : q \in moved} |-> w[from \o SubSeq(r, Len(to) + 1, Len(r))]]
      both == new @@ kept
  IN both @@ WtParents(both, to)

\* ------------------------------------------------- Manager.NotifyChange
ChanCap == 100

Notification(p, operation, t) == [Path |-> p, Operation |-> operation, Time |-> t]
\* (mutant) a full channel that makes room by dropping its oldest notification
ChanSendDropOldest(q, n) == IF Len(q) < ChanCap THEN Append(q, n) ELSE Append(Tail(q), n)
\* select { case m.changes <- notification: default: } : a full channel drops the new one
ChanSend(q, n) == IF Len(q) < ChanCap THEN Append(q, n) ELSE q
NotifyChange(q, p, operation, t) == ChanSend(q, Notification(p, operation, t))
Event(p, operation) == [Path |-> p, Operation |-> operation]

\* ------------------------------------------------- the last handler call
\* errno is what the handler returned, events the NotifyChange calls it made,
\* wtErr whether a call it made on the working tree returned an error
NoCall == [op |-> "none", node |-> 0, name |-> "", np |-> 0, newName |-> "",
           off |-> 0, data |-> << >>, size |-> 0 - 1, errno |-> OK, n |-> 0,
           out |-> << >>, events |-> << >>, wtErr |-> FALSE]

\* ------------------------------------------------- the inode tree
NodeIds == 1..Len(kind)
Root == 1
RECURSIVE Desc(_)
Desc(n) == {n} \cup UNION {Desc(children[n][k]) : k \in DOMAIN children[n]}
Attached == Desc(Root)
AttachedDirs == {n \in Attached : kind[n] # "file"}
AttachedFiles == {n \in Attached : kind[n] = "file"}
\* Inode.Parent(): 0 is nil
ParentOf(n) ==
  LET ps == {d \in NodeIds : \E k \in DOMAIN children[d] : children[d][k] = n}
  IN IF ps = {} THEN 0 ELSE CHOOSE d \in ps : TRUE
\* the path of an attached node, by the names from the root down to it
RECURSIVE TreePath(_)
TreePath(n) ==
  IF n = Root \/ ParentOf(n) = 0 THEN << >>
  ELSE LET d == ParentOf(n)
       IN Append(TreePath(d), CHOOSE k \in DOMAIN children[d] : children[d][k] = n)

\* (mutant) an RmChild that leaves the link in place
RmChildKeep(ch, parent, name) == ch
\* Inode.AddChild(name, child, true) and Inode.RmChild(name)
AddChild(ch, parent, name, child) == [ch EXCEPT ![parent] = MapPut(@, name, child)]
RmChild(ch, parent, name) == [ch EXCEPT ![parent] = MapDel(@, name)]

\* ------------------------------------------------- mount: traverseTree
Tree(k, p, c, d, ch) == [kind |-> k, path |-> p, content |-> c, dirty |-> d, children |-> ch]
\* NewGittyDir / NewGittyFileWithContent, NewPersistentInode and AddChild under parent
\* (mutant) a walk that makes its file nodes with NewGittyFile: no content read
TreeAddEmpty(T, parent, name, k, p, c) ==
  LET id == Len(T.kind) + 1
  IN Tree(Append(T.kind, k), Append(T.path, p), Append(T.content, << >>), Append(T.dirty, FALSE),
          AddChild(Append(T.children, EmptyMap), parent, name, id))
\* NewGittyDir / NewGittyFileWithContent, NewPersistentInode and AddChild of the walk
TreeAdd(T, parent, name, k, p, c) ==
  LET id == Len(T.kind) + 1
  IN Tree(Append(T.kind, k), Append(T.path, p), Append(T.content, c), Append(T.dirty, FALSE),
          AddChild(Append(T.children, EmptyMap), parent, name, id))

RECURSIVE traverseTree(_, _, _, _, _)
traverseTree(T, node, w, p, i) ==
  IF i > Len(NameSeq) THEN T
  ELSE LET name == NameSeq[i]
           filePath == Append(p, name)
       IN IF ~WtHas(w, filePath) THEN traverseTree(T, node, w, p, i + 1)
          ELSE IF w[filePath].isDir
          THEN LET T1 == TreeAdd(T, node, name, "dir", filePath, << >>)
                   T2 == traverseTree(T1, Len(T1.kind), w, filePath, 1)
               IN traverseTree(T2, node, w, p, i + 1)
          ELSE traverseTree(TreeAdd(T, node, name, "file", filePath, w[filePath].data), node, w, p, i + 1)

\* ------------------------------------------------- initial state
\* NewManager, go manager.Run(), NewFilesystem: a root GittyDir with path ""
\* time.NewTicker(1 * time.Second) in Run, syncInterval: 2 * time.Second in NewManager
TickPeriod == 1 * UnitsPerSecond
SyncInterval == 2 * UnitsPerSecond
Callers == 1..NumCallers
\* the goroutines that can hold Manager.mu: Run, and the other callers of SyncToGit
SyncCallers == 1..NumSyncCallers
RunLoop == 0
Free == 0 - 1
NoStamp == [Path |-> << >>, Operation |-> "", Time |-> 0 - 1]
\* the steps of SyncToGit that can return an error, in order
SyncSteps == <<"config", "setconfig", "worktree", "add", "commit", "auth", "push">>
\* counters of the run: cycles started, commits made, pushes made, cycles that
\* failed, events stamped, events dropped; committed: the running cycle has its commit;
\* bursts: first and last stamp of every burst of events; early: a cycle started less
\* than SyncInterval after the last stamp of the burst whose event it had consumed last;
\* lost: "pending" once an event was dropped (the change it described is in the
\* working tree only), "staged" once an Add has run after that, "no" once a push
\* has succeeded after that Add
NoHist == [cycles |-> 0, commits |-> 0, pushes |-> 0, failures |-> 0, emitted |-> 0,
           dropped |-> 0, committed |-> FALSE, bursts |-> << >>, early |-> FALSE,
           lost |-> "no", consumed |-> 0, calls |-> 0, skipped |-> 0]

\* the handler calls the FUSE server runs in goroutines of their own
Threads == 1..NumThreads
\* a thread that is in no call; in a call: op the handler, pc the statement it is
\* at, node/name/np/newName/off/data its arguments, i the bytes copy has stored,
\* lo..hi the part of the buffer a Read result refers to, alias whether that result
\* still shares the buffer's array, view the bytes of a result that no longer does,
\* held the buffer as it was when the call took the lock
NoThread == [op |-> "none", pc |-> "idle", node |-> 0, name |-> "", np |-> 0, newName |-> "",
             off |-> 0, data |-> << >>, i |-> 0, lo |-> 0, hi |-> 0, alias |-> FALSE,
             view |-> << >>, held |-> << >>]

InitManager ==
  /\ changes = << >>
  /\ isDirty = FALSE
  /\ lastChangeTime = 0
  /\ now = 0
  /\ tickReady = FALSE
  /\ nextTick = TickPeriod
  /\ pcRun = "select"
  /\ stamped = [c \in Callers |-> NoStamp]
  /\ hist = NoHist
  /\ mgrMu = Free
  /\ runChange = NoStamp
  /\ syncPc = [c \in SyncCallers |-> "idle"]

Init ==
  /\ phase = "new"
  /\ kind = <<"root">>
  /\ path = << << >> >>
  /\ content = << << >> >>
  /\ dirty = <<FALSE>>
  /\ children = <<EmptyMap>>
  /\ wt \in InitialRepos
  /\ last = NoCall
  /\ nops = 0
  /\ InitManager
  /\ thr = [t \in Threads |-> NoThread]
  /\ mu = [n \in 1..MaxNodes |-> 0]

\* Filesystem.OnAdd: the walk of the working tree; a ReadDir/OpenFile error is log.Fatalf
OnAdd(fail) ==
  /\ phase = "new"
  /\ IF fail
     THEN /\ phase' = "crashed"
          /\ UNCHANGED <<kind, path, content, dirty, children>>
     ELSE LET T == traverseTree(Tree(kind, path, content, dirty, children), Root, wt, << >>, 1)
          IN /\ phase' = "mounted"
             /\ kind' = T.kind
             /\ path' = T.path
             /\ content' = T.content
             /\ dirty' = T.dirty
             /\ children' = T.children
  /\ last' = [NoCall EXCEPT !.op = "OnAdd", !.errno = IF fail THEN PANIC ELSE OK]
  /\ UNCHANGED <<wt, nops, changes, mgrvars, convars>>

\* ------------------------------------------------- GittyFile: the buffer
\* (mutant) a larger slice that is not cleared: the bytes after the old ones are 1
GrowDirty(c, n) == c \o [i \in 1..(n - Len(c)) |-> 1]
\* newSlice := make([]byte, n); copy(newSlice, f.content): zeros after the old bytes
Grow(c, n) == c \o Zeros(n - Len(c))
\* (mutant) a Write that never grows the buffer: copy stores only what fits
WriteBufNoGrow(c, off, data) ==
  [i \in 1..Len(c) |-> IF i > off /\ i <= off + Len(data) THEN data[i - off] ELSE c[i]]
\* Write: grow with zeros to off+len(data) when shorter, then copy(content[off:], data)
WriteBuf(c, off, data) ==
  LET grown == IF Len(c) < off + Len(data) THEN Grow(c, off + Len(data)) ELSE c
  IN [i \in 1..Len(grown) |-> IF i > off /\ i <= off + Len(data) THEN data[i - off] ELSE grown[i]]
\* (mutant) a Read that clamps the end and then forgets the offset
ReadBufFromStart(c, off, n) == IF off >= Len(c) THEN << >> ELSE SubSeq(c, 1, Min(off + n, Len(c)) - off)
\* Read: empty at or past the end, else content[off:min(off+len(dest), len(content))]
ReadBuf(c, off, n) == IF off >= Len(c) THEN << >> ELSE SubSeq(c, off + 1, Min(off + n, Len(c)))
\* (mutant) a Setattr that shrinks but never extends
SetattrBufNoGrow(c, newSize) ==
  IF newSize = 0 THEN << >>
  ELSE IF newSize < Len(c) THEN SubSeq(c, 1, newSize)
  ELSE c
\* Setattr with FATTR_SIZE
SetattrBuf(c, newSize) ==
  IF newSize = 0 THEN << >>
  ELSE IF newSize < Len(c) THEN SubSeq(c, 1, newSize)
  ELSE IF newSize > Len(c) THEN c \o Zeros(newSize - Len(c))
  ELSE c

\* ------------------------------------------------- GittyFile handlers
\* the body of Write
WriteCall(f, off, data) ==
  /\ content' = [content EXCEPT ![f] = WriteBuf(content[f], off, data)]
  /\ dirty' = [dirty EXCEPT ![f] = TRUE]
  /\ last' = [NoCall EXCEPT !.op = "Write", !.node = f, !.off = off, !.data = data,
                            !.n = Min(Len(WriteBuf(content[f], off, data)) - off, Len(data))]
  /\ nops' = nops + 1
  /\ UNCHANGED <<phase, kind, path, children, wt, changes, mgrvars, convars>>

FsWrite(f, off, data) ==
  /\ phase = "mounted"
  /\ f \in AttachedFiles
  /\ WriteCall(f, off, data)

\* Write through a handle of a node that was removed from its directory: a file
\* node that is in no children map any more, which the kernel keeps while a
\* handle that Open returned for it is in use
FsWriteHandle(f, off, data) ==
  /\ phase = "mounted"
  /\ f \in {n \in NodeIds \ Attached : kind[n] = "file"}
  /\ WriteCall(f, off, data)

FsRead(f, off, n) ==
  /\ phase = "mounted"
  /\ f \in AttachedFiles
  /\ last' = [NoCall EXCEPT !.op = "Read", !.node = f, !.off = off, !.n = n,
                            !.out = ReadBuf(content[f], off, n)]
  /\ nops' = nops + 1
  /\ UNCHANGED <<phase, kind, path, content, dirty, children, wt, changes, mgrvars, convars>>

\* Getattr, out.Size: the size of the working-tree entry at f.path when Stat finds
\* one and the node is clean, else the length of the buffer
GetattrSize(w, p, c, d) == IF WtHas(w, p) /\ ~d THEN Len(w[p].data) ELSE Len(c)
FsGetattr(f) ==
  /\ phase = "mounted"
  /\ f \in AttachedFiles
  /\ last' = [NoCall EXCEPT !.op = "Getattr", !.node = f,
                            !.out = <<GetattrSize(wt, path[f], content[f], dirty[f])>>]
  /\ nops' = nops + 1
  /\ UNCHANGED <<phase, kind, path, content, dirty, children, wt, changes, mgrvars, convars>>

\* (mutant) a Setattr that marks the node only when the length changes
SetattrDirtyOnChange(d, n, newSize) == d \/ newSize # n
\* f.dirty = true at the end of the FATTR_SIZE branch, whatever the sizes
SetattrDirty(d, n, newSize) == TRUE
\* size < 0: a Setattr without FATTR_SIZE (mode, owner, times)
FsSetattr(f, size) ==
  /\ phase = "mounted"
  /\ f \in AttachedFiles
  /\ IF size >= 0
     THEN /\ content' = [content EXCEPT ![f] = SetattrBuf(content[f], size)]
          /\ dirty' = [dirty EXCEPT ![f] = SetattrDirty(dirty[f], Len(content[f]), size)]
     ELSE UNCHANGED <<content, dirty>>
  /\ last' = [NoCall EXCEPT !.op = "Setattr", !.node = f, !.size = size]
  /\ nops' = nops + 1
  /\ UNCHANGED <<phase, kind, path, children, wt, changes, mgrvars, convars>>

\* (mutant) an Fsync that opens without O_TRUNC: the tail of a longer entry survives
FsyncEntryNoTrunc(w, p, c) ==
  LET old == IF WtHas(w, p) /\ ~w[p].isDir THEN w[p].data ELSE << >>
  IN WtWriteFile(w, p, IF Len(old) > Len(c) THEN c \o SubSeq(old, Len(c) + 1, Len(old)) ELSE c)
\* what Fsync leaves in the working tree at p when OpenFile(O_TRUNC) and Write succeed
FsyncEntry(w, p, c) == WtWriteFile(w, p, c)

\* (mutant) an Fsync that clears dirty before it opens the file
FsyncFailedDirtyCleared(d) == FALSE
\* the dirty flag when Fsync returns EIO: f.dirty = false is not reached
FsyncFailedDirty(d) == d

\* Fsync; outcome "ok", "open" (OpenFile fails) or "write" (file.Write fails after
\* the truncation, having stored the first k bytes)
FsyncCall(f, outcome, k) ==
  /\ k <= Len(content[f])
  /\ outcome = "write" \/ k = 0
  /\ LET openErr == outcome = "open" \/ WtIsDir(wt, path[f])
     IN IF ~dirty[f]
        THEN /\ outcome = "ok"
             /\ last' = [NoCall EXCEPT !.op = "Fsync", !.node = f]
             /\ UNCHANGED <<dirty, wt, changes>>
        ELSE IF openErr
        THEN /\ outcome # "write"
             /\ last' = [NoCall EXCEPT !.op = "Fsync", !.node = f, !.errno = EIO, !.wtErr = TRUE]
             /\ dirty' = [dirty EXCEPT ![f] = FsyncFailedDirty(@)]
             /\ UNCHANGED <<wt, changes>>
        ELSE IF outcome = "write"
        THEN /\ k < Len(content[f]) \/ k = 0
             /\ wt' = FsyncEntry(wt, path[f], SubSeq(content[f], 1, k))
             /\ last' = [NoCall EXCEPT !.op = "Fsync", !.node = f, !.errno = EIO, !.wtErr = TRUE]
             /\ dirty' = [dirty EXCEPT ![f] = FsyncFailedDirty(@)]
             /\ UNCHANGED changes
        ELSE /\ wt' = FsyncEntry(wt, path[f], content[f])
             /\ dirty' = [dirty EXCEPT ![f] = FALSE]
             /\ changes' = NotifyChange(changes, path[f], "write", now)
             /\ last' = [NoCall EXCEPT !.op = "Fsync", !.node = f,
                                       !.events = <<Event(path[f], "write")>>]
  /\ nops' = nops + 1
  /\ UNCHANGED <<phase, kind, path, content, children, mgrvars, convars>>

FsFsync(f, outcome, k) ==
  /\ phase = "mounted"
  /\ f \in AttachedFiles
  /\ FsyncCall(f, outcome, k)

\* Fsync through a handle of a node that was removed from its directory
FsFsyncHandle(f, outcome, k) ==
  /\ phase = "mounted"
  /\ f \in {n \in NodeIds \ Attached : kind[n] = "file"}
  /\ FsyncCall(f, outcome, k)

\* GittyFile.Unlink
FsFileUnlink(f) ==
  /\ phase = "mounted"
  /\ f \in AttachedFiles
  /\ content' = [content EXCEPT ![f] = (IF dirty[f] THEN << >> ELSE content[f])]
  /\ dirty' = [dirty EXCEPT ![f] = FALSE]
  /\ changes' = NotifyChange(changes, path[f], "delete", now)
  /\ last' = [NoCall EXCEPT !.op = "FileUnlink", !.node = f,
                            !.events = <<Event(path[f], "delete")>>]
  /\ nops' = nops + 1
  /\ UNCHANGED <<phase, kind, path, children, wt, mgrvars, convars>>

\* ------------------------------------------------- GittyDir handlers
\* The kernel looks a name up in the children map before it calls a handler: Create
\* and Mkdir are called for names the directory does not have, Unlink for a file it
\* has, Rmdir for a directory it has, Rename for a name it has.

\* NewGittyFile / NewGittyDir with NewPersistentInode: the next node
NewNode == Len(kind) + 1

\* the entries Readdir hands to NewListDirStream: a slice made empty and never
\* appended to, whatever the children map holds
ReaddirEntries(ch) == << >>
\* GittyDir.Readdir, which the root Filesystem inherits by embedding *GittyDir
FsReaddir(d) ==
  /\ phase = "mounted"
  /\ d \in AttachedDirs
  /\ last' = [NoCall EXCEPT !.op = "Readdir", !.node = d, !.out = ReaddirEntries(children[d])]
  /\ nops' = nops + 1
  /\ UNCHANGED <<phase, kind, path, content, dirty, children, wt, changes, mgrvars, convars>>

\* (mutant) a handler that makes the inode and never links it
LinkNewUnlinked(ch, d, name, n) == Append(ch, EmptyMap)
\* NewPersistentInode, then d.AddChild(name, child, true)
LinkNew(ch, d, name, n) == AddChild(Append(ch, EmptyMap), d, name, n)

\* (mutant) a Create that notifies the manager before it creates in the working tree
CreateFailedQueueEarly(q, p, t) == NotifyChange(q, p, "create", t)
\* the channel when Create returns EIO: NotifyChange is not reached
CreateFailedQueue(q, p, t) == q

FsCreate(d, name, fail) ==
  /\ phase = "mounted"
  /\ d \in AttachedDirs
  /\ name \notin DOMAIN children[d]
  /\ NewNode <= MaxNodes
  /\ LET p == Append(path[d], name)
         createErr == fail \/ WtIsDir(wt, p)
     IN IF createErr
        THEN /\ last' = [NoCall EXCEPT !.op = "Create", !.node = d, !.name = name, !.errno = EIO, !.wtErr = TRUE]
             /\ changes' = CreateFailedQueue(changes, p, now)
             /\ UNCHANGED <<kind, path, content, dirty, children, wt>>
        ELSE /\ wt' = WtWriteFile(wt, p, << >>)
             /\ kind' = Append(kind, "file")
             /\ path' = Append(path, p)
             /\ content' = Append(content, << >>)
             /\ dirty' = Append(dirty, FALSE)
             /\ children' = LinkNew(children, d, name, NewNode)
             /\ changes' = NotifyChange(changes, p, "create", now)
             /\ last' = [NoCall EXCEPT !.op = "Create", !.node = d, !.name = name,
                                       !.events = <<Event(p, "create")>>]
  /\ nops' = nops + 1
  /\ UNCHANGED <<phase, mgrvars, convars>>

FsMkdir(d, name, fail) ==
  /\ phase = "mounted"
  /\ d \in AttachedDirs
  /\ name \notin DOMAIN children[d]
  /\ NewNode <= MaxNodes
  /\ LET p == Append(path[d], name)
         mkdirErr == fail \/ (WtHas(wt, p) /\ ~WtIsDir(wt, p))
     IN IF mkdirErr
        THEN /\ last' = [NoCall EXCEPT !.op = "Mkdir", !.node = d, !.name = name, !.errno = EIO, !.wtErr = TRUE]
             /\ UNCHANGED <<kind, path, content, dirty, children, wt, changes>>
        ELSE /\ wt' = WtMkdirAll(wt, p)
             /\ kind' = Append(kind, "dir")
             /\ path' = Append(path, p)
             /\ content' = Append(content, << >>)
             /\ dirty' = Append(dirty, FALSE)
             /\ children' = LinkNew(children, d, name, NewNode)
             /\ changes' = NotifyChange(changes, p, "mkdir", now)
             /\ last' = [NoCall EXCEPT !.op = "Mkdir", !.node = d, !.name = name,
                                       !.events = <<Event(p, "mkdir")>>]
  /\ nops' = nops + 1
  /\ UNCHANGED <<phase, mgrvars, convars>>

\* GittyDir.Unlink: wt.Remove, then RmChild, then the event
\* (mutant) an Unlink that answers every failure of wt.Remove with EIO
UnlinkErrnoFlat(absent) == EIO
\* the errno of Unlink when wt.Remove has failed: os.IsNotExist(err) or not
UnlinkErrno(absent) == IF absent THEN ENOENT ELSE EIO

\* the body of GittyDir.Unlink
UnlinkCall(d, name, fail) ==
  /\ LET p == Append(path[d], name)
     IN IF ~WtHas(wt, p)
        THEN /\ last' = [NoCall EXCEPT !.op = "Unlink", !.node = d, !.name = name, !.errno = UnlinkErrno(TRUE), !.wtErr = TRUE]
             /\ UNCHANGED <<children, wt, changes>>
        ELSE IF fail
        THEN /\ last' = [NoCall EXCEPT !.op = "Unlink", !.node = d, !.name = name, !.errno = UnlinkErrno(FALSE), !.wtErr = TRUE]
             /\ UNCHANGED <<children, wt, changes>>
        ELSE /\ wt' = WtRemove(wt, p)
             /\ children' = RmChild(children, d, name)
             /\ changes' = NotifyChange(changes, p, "delete", now)
             /\ last' = [NoCall EXCEPT !.op = "Unlink", !.node = d, !.name = name,
                                       !.events = <<Event(p, "delete")>>]
  /\ nops' = nops + 1
  /\ UNCHANGED <<phase, kind, path, content, dirty, mgrvars, convars>>

FsUnlink(d, name, fail) ==
  /\ phase = "mounted"
  /\ d \in AttachedDirs
  /\ name \in DOMAIN children[d]
  /\ kind[children[d][name]] = "file"
  /\ UnlinkCall(d, name, fail)

\* Unlink called for a name the directory has no child for
FsUnlinkAbsent(d, name) ==
  /\ phase = "mounted"
  /\ d \in AttachedDirs
  /\ name \notin DOMAIN children[d]
  /\ ~WtIsDir(wt, Append(path[d], name))
  /\ UnlinkCall(d, name, FALSE)

\* (mutant) an emptiness test that tolerates one entry
RmdirNotEmptyLax(entries) == Cardinality(entries) > 1
\* len(entries) > 0 on the listing of the working tree
RmdirNotEmpty(entries) == Cardinality(entries) > 0

\* GittyDir.Rmdir; fail: "" none, "readdir" or "remove"
FsRmdir(d, name, fail) ==
  /\ phase = "mounted"
  /\ d \in AttachedDirs
  /\ name \in DOMAIN children[d]
  /\ kind[children[d][name]] = "dir"
  /\ LET p == Append(path[d], name)
         ret(e) == [NoCall EXCEPT !.op = "Rmdir", !.node = d, !.name = name, !.errno = e]
         err(e) == [ret(e) EXCEPT !.wtErr = TRUE]
     IN IF ~WtHas(wt, p)
        THEN /\ last' = err(ENOENT)
             /\ UNCHANGED <<children, wt, changes>>
        ELSE IF fail = "readdir"
        THEN /\ last' = err(EIO)
             /\ UNCHANGED <<children, wt, changes>>
        ELSE IF RmdirNotEmpty(WtReadDir(wt, p))
        THEN /\ fail = ""
             /\ last' = ret(ENOTEMPTY)
             /\ UNCHANGED <<children, wt, changes>>
        ELSE IF fail = "remove"
        THEN /\ last' = err(EIO)
             /\ UNCHANGED <<children, wt, changes>>
        ELSE /\ wt' = WtRemove(wt, p)
             /\ children' = RmChild(children, d, name)
             /\ changes' = NotifyChange(changes, p, "rmdir", now)
             /\ last' = [ret(OK) EXCEPT !.events = <<Event(p, "rmdir")>>]
  /\ nops' = nops + 1
  /\ UNCHANGED <<phase, kind, path, content, dirty, mgrvars, convars>>

\* findFile: from the root, one step down for every component of p that names a
\* child of the node reached so far; a component that names none is skipped
RECURSIVE findFrom(_, _, _, _)
findFrom(ch, node, p, i) ==
  IF i > Len(p) THEN node
  ELSE IF p[i] \in DOMAIN ch[node] THEN findFrom(ch, ch[node][p[i]], p, i + 1)
  ELSE findFrom(ch, node, p, i + 1)
findFile(ch, p) == findFrom(ch, Root, p, 1)

\* a newParent that is a node of another tree instance (no GittyDir, GittyFile or
\* Filesystem of this package)
Foreign == 0
\* the type switch of Rename on newParent: <<newParentPath, newPath>>
RenameTarget(np, newName) ==
  IF np = Foreign THEN << << >>, <<newName>> >>
  ELSE IF kind[np] = "dir" THEN <<path[np], Append(path[np], newName)>>
  ELSE IF kind[np] = "file" THEN << << >>, << >> >>
  ELSE <<path[Root], Append(path[Root], newName)>>

\* (mutant) a Rename that detaches the node before it renames in the working tree
RenameFailedDetached(ch, d, oldName) == [ch EXCEPT ![d] = MapDel(@, oldName)]
\* the children map Rename returns with when wt.Rename has failed
RenameFailed(ch, d, oldName) == ch
\* the path the moved GittyFile carries after Rename: Rename assigns none
RenamedPath(oldP, newPath) == oldP

\* (mutant) a Rename that announces the new path before it retires the old one
RenameEventsSwapped(oldPath, newPath) == <<Event(newPath, "create"), Event(oldPath, "delete")>>
\* the two NotifyChange calls that end Rename
RenameEvents(oldPath, newPath) == <<Event(oldPath, "delete"), Event(newPath, "create")>>

\* the body of Rename
RenameCall(d, oldName, np, newName, fail) ==
  /\ LET oldPath == Append(path[d], oldName)
         newParentPath == RenameTarget(np, newName)[1]
         newPath == RenameTarget(np, newName)[2]
         ret(e) == [NoCall EXCEPT !.op = "Rename", !.node = d, !.name = oldName, !.np = np,
                                  !.newName = newName, !.errno = e]
         oldFile == findFile(children, oldPath)
         newParentDir == findFile(children, newParentPath)
         oldParentDir == ParentOf(oldFile)
     IN IF fail \/ ~WtHas(wt, oldPath)
        THEN /\ children' = RenameFailed(children, d, oldName)
             /\ last' = [ret(EIO) EXCEPT !.wtErr = TRUE]
             /\ UNCHANGED <<phase, path, wt, changes>>
        ELSE IF oldParentDir = 0
        THEN \* RmChild on a nil *Inode
             /\ wt' = WtRename(wt, oldPath, newPath)
             /\ phase' = "crashed"
             /\ last' = ret(PANIC)
             /\ UNCHANGED <<path, children, changes>>
        ELSE IF oldName \notin DOMAIN children[oldParentDir]
        THEN /\ wt' = WtRename(wt, oldPath, newPath)
             /\ last' = ret(EIO)
             /\ UNCHANGED <<phase, path, children, changes>>
        ELSE IF kind[oldFile] # "file"
        THEN \* oldFile.Operations().(*GittyFile) on a GittyDir, after RmChild
             /\ wt' = WtRename(wt, oldPath, newPath)
             /\ children' = RmChild(children, oldParentDir, oldName)
             /\ phase' = "crashed"
             /\ last' = ret(PANIC)
             /\ UNCHANGED <<path, changes>>
        ELSE /\ wt' = WtRename(wt, oldPath, newPath)
             /\ children' = AddChild(RmChild(children, oldParentDir, oldName), newParentDir, newName, oldFile)
             /\ path' = [path EXCEPT ![oldFile] = RenamedPath(@, newPath)]
             /\ LET ev == RenameEvents(oldPath, newPath)
                IN /\ changes' = NotifyChange(NotifyChange(changes, ev[1].Path, ev[1].Operation, now),
                                              ev[2].Path, ev[2].Operation, now)
                   /\ last' = [ret(OK) EXCEPT !.events = ev]
             /\ UNCHANGED phase
  /\ nops' = nops + 1
  /\ UNCHANGED <<kind, content, dirty, mgrvars, convars>>

FsRename(d, oldName, np, newName, fail) ==
  /\ phase = "mounted"
  /\ d \in AttachedDirs
  /\ np \in AttachedDirs
  /\ oldName \in DOMAIN children[d]
  /\ <<np, newName>> # <<d, oldName>>
  /\ np \notin Desc(children[d][oldName])
  /\ newName \in DOMAIN children[np] =>
       LET tgt == children[np][newName]
       IN IF kind[children[d][oldName]] = "file" THEN kind[tgt] = "file"
          ELSE kind[tgt] = "dir" /\ DOMAIN children[tgt] = {}
  /\ RenameCall(d, oldName, np, newName, fail)

\* Rename called with a newParent of another tree instance, for a name that is
\* free at the top of this tree and of its working tree
FsRenameForeign(d, oldName, newName, fail) ==
  /\ phase = "mounted"
  /\ d \in AttachedDirs
  /\ oldName \in DOMAIN children[d]
  /\ newName \notin DOMAIN children[Root]
  /\ ~WtHas(wt, <<newName>>)
  /\ RenameCall(d, oldName, Foreign, newName, fail)

\* ------------------------------------------------- Manager
\* NotifyChange in two steps, as its callers run concurrently with each other and
\* with Run: the notification is built with time.Now(), then sent without blocking
BurstsAfter(bs, t) ==
  IF bs # << >> /\ t - bs[Len(bs)].last < SyncInterval
  THEN [bs EXCEPT ![Len(bs)].last = t]
  ELSE Append(bs, [first |-> t, last |-> t])

MgrStamp(c, p, operation) ==
  /\ stamped[c] = NoStamp
  /\ stamped' = [stamped EXCEPT ![c] = Notification(p, operation, now)]
  /\ hist' = [hist EXCEPT !.emitted = @ + 1, !.bursts = BurstsAfter(@, now)]
  /\ UNCHANGED <<fsvars, changes, isDirty, lastChangeTime, now, tickReady, nextTick, pcRun, mgrMu, runChange, syncPc, convars>>

MgrSend(c) ==
  /\ stamped[c] # NoStamp
  /\ changes' = ChanSend(changes, stamped[c])
  /\ stamped' = [stamped EXCEPT ![c] = NoStamp]
  /\ hist' = [hist EXCEPT !.dropped = IF Len(changes) < ChanCap THEN @ ELSE @ + 1,
                          !.lost = IF Len(changes) < ChanCap THEN @ ELSE "pending"]
  /\ UNCHANGED <<fsvars, isDirty, lastChangeTime, now, tickReady, nextTick, pcRun, mgrMu, runChange, syncPc, convars>>

\* (mutant) a receive that reads the oldest notification and leaves it in the channel
ChanRecvKeep(q) == q
\* change := <-m.changes: the channel without its oldest notification
ChanRecv(q) == Tail(q)
\* Run, case change := <-m.changes
RunRecv ==
  /\ pcRun = "select"
  /\ changes # << >>
  /\ isDirty' = TRUE
  /\ lastChangeTime' = Head(changes).Time
  /\ changes' = ChanRecv(changes)
  /\ hist' = [hist EXCEPT !.consumed = @ + 1]
  /\ UNCHANGED <<fsvars, now, tickReady, nextTick, pcRun, stamped, mgrMu, runChange, syncPc, convars>>

\* (mutant) a tick condition that does not wait for the silence
SyncDueEager(d, t, lct) == d
\* the tick condition of Run
SyncDue(d, t, lct) == d /\ t - lct >= SyncInterval
\* the last stamp of the burst that holds the event stamped at t
BurstLast(bs, t) ==
  LET is == {i \in 1..Len(bs) : bs[i].first <= t /\ t <= bs[i].last}
  IN IF is = {} THEN t ELSE bs[CHOOSE i \in is : TRUE].last

\* Run, case <-ticker.C: SyncToGit is entered when the condition holds
RunTick ==
  /\ pcRun = "select"
  /\ tickReady
  /\ tickReady' = FALSE
  /\ IF SyncDue(isDirty, now, lastChangeTime)
     THEN /\ pcRun' = SyncSteps[1]
          /\ hist' = [hist EXCEPT !.cycles = @ + 1, !.committed = FALSE,
                                  !.early = @ \/ now - BurstLast(hist.bursts, lastChangeTime) < SyncInterval]
     ELSE UNCHANGED <<pcRun, hist>>
  /\ UNCHANGED <<fsvars, changes, isDirty, lastChangeTime, now, nextTick, stamped, mgrMu, runChange, syncPc, convars>>

\* (mutant) a SyncToGit that resets the flag once the commit is made
SyncDirtyAtCommit(d, pc, ok) == IF pc = "commit" /\ ok THEN FALSE ELSE d
\* isDirty after the step pc of SyncToGit: only the push that succeeds resets it
SyncDirty(d, pc, ok) == IF pc = "push" /\ ok THEN FALSE ELSE d
\* (mutant) a SyncToGit that commits without staging
NextSyncStepNoAdd(pc) ==
  IF pc = "worktree" THEN "commit"
  ELSE SyncSteps[(CHOOSE i \in 1..Len(SyncSteps) : SyncSteps[i] = pc) + 1]
\* the step of SyncToGit that follows the step pc
NextSyncStep(pc) == SyncSteps[(CHOOSE i \in 1..Len(SyncSteps) : SyncSteps[i] = pc) + 1]

\* one step of SyncToGit; a step that fails returns the error to Run, which logs
\* it; a failing credential setup is log.Fatalf
SyncStep(ok) ==
  /\ pcRun \notin {"select", "exited"}
  /\ isDirty' = SyncDirty(isDirty, pcRun, ok)
  /\ pcRun' = IF ~ok THEN (IF pcRun = "auth" THEN "exited" ELSE "select")
              ELSE IF pcRun = "push" THEN "select" ELSE NextSyncStep(pcRun)
  /\ hist' = [hist EXCEPT !.commits = IF ok /\ pcRun = "commit" THEN @ + 1 ELSE @,
                          !.committed = @ \/ (ok /\ pcRun = "commit"),
                          !.pushes = IF ok /\ pcRun = "push" THEN @ + 1 ELSE @,
                          !.failures = IF ok THEN @ ELSE @ + 1,
                          !.lost = IF ok /\ pcRun = "add" /\ @ = "pending" THEN "staged"
                                   ELSE IF ok /\ pcRun = "push" /\ @ = "staged" THEN "no"
                                   ELSE @]
  /\ UNCHANGED <<fsvars, changes, lastChangeTime, now, tickReady, nextTick, stamped, mgrMu, runChange, syncPc, convars>>

\* the clock; a tick that finds ticker.C full is dropped
Clock(horizon) ==
  /\ now < horizon
  /\ now' = now + 1
  /\ IF now' = nextTick
     THEN tickReady' = TRUE /\ nextTick' = nextTick + TickPeriod
     ELSE UNCHANGED <<tickReady, nextTick>>
  /\ UNCHANGED <<fsvars, changes, isDirty, lastChangeTime, pcRun, stamped, hist, mgrMu, runChange, syncPc, convars>>
AdvanceTime == Clock(MaxTime)

\* Run and the callers of NotifyChange are served at once: time passes only when
\* Run waits in its select with nothing ready, or is inside SyncToGit
Prompt ==
  /\ \A c \in Callers : stamped[c] = NoStamp
  /\ pcRun = "select" => changes = << >> /\ ~tickReady

InitMgr == Init /\ wt = RepoEmpty
NextMgr ==
  \/ \E c \in Callers, p \in {<<"a">>} : hist.emitted < MaxFreeEmit /\ MgrStamp(c, p, "write")
  \/ \E c \in Callers : MgrSend(c)
  \/ RunRecv
  \/ RunTick
  \/ \E ok \in BOOLEAN : SyncStep(ok)
  \/ AdvanceTime
SpecMgr == InitMgr /\ [][NextMgr]_vars

NextPrompt ==
  \/ \E c \in Callers, p \in {<<"a">>} : hist.emitted < MaxEmit /\ MgrStamp(c, p, "write")
  \/ \E c \in Callers : MgrSend(c)
  \/ RunRecv
  \/ RunTick
  \/ \E ok \in BOOLEAN : SyncStep(ok)
  \/ Prompt /\ AdvanceTime
SpecPrompt == InitMgr /\ [][NextPrompt]_vars

\* Run and SyncToGit statement by statement around m.mu, with SyncToGit called
\* from other goroutines too and one goroutine that calls NotifyChange. Run is at "select", at "recv" or "tick" (a case of
\* the select was taken, m.mu.Lock comes next), or in SyncToGit; a call of
\* SyncToGit is at "lock" (m.mu.Lock comes next) or at one of SyncSteps.
SyncPcOf(w) == IF w = RunLoop THEN pcRun ELSE syncPc[w]
InSync(w) == \E i \in 1..Len(SyncSteps) : SyncSteps[i] = SyncPcOf(w)

\* case change := <-m.changes, up to m.mu.Lock
LockRunRecv ==
  /\ pcRun # "exited"
  /\ pcRun = "select"
  /\ changes # << >>
  /\ runChange' = Head(changes)
  /\ changes' = ChanRecv(changes)
  /\ pcRun' = "recv"
  /\ hist' = [hist EXCEPT !.consumed = @ + 1]
  /\ UNCHANGED <<fsvars, isDirty, lastChangeTime, now, tickReady, nextTick, stamped, mgrMu, syncPc, convars>>

\* m.mu.Lock; m.isDirty = true; m.lastChangeTime = change.Time; m.mu.Unlock
LockRunRecord ==
  /\ pcRun # "exited"
  /\ pcRun = "recv"
  /\ mgrMu = Free
  /\ isDirty' = TRUE
  /\ lastChangeTime' = runChange.Time
  /\ runChange' = NoStamp
  /\ pcRun' = "select"
  /\ UNCHANGED <<fsvars, changes, now, tickReady, nextTick, stamped, hist, mgrMu, syncPc, convars>>

\* case <-ticker.C, up to m.mu.Lock
LockRunTick ==
  /\ pcRun # "exited"
  /\ pcRun = "select"
  /\ tickReady
  /\ tickReady' = FALSE
  /\ pcRun' = "tick"
  /\ UNCHANGED <<fsvars, changes, isDirty, lastChangeTime, now, nextTick, stamped, hist, mgrMu, runChange, syncPc, convars>>

\* m.mu.Lock; the condition; m.mu.Unlock; SyncToGit is called when it holds
LockRunDue ==
  /\ pcRun # "exited"
  /\ pcRun = "tick"
  /\ mgrMu = Free
  /\ pcRun' = IF SyncDue(isDirty, now, lastChangeTime) THEN "lock" ELSE "select"
  /\ UNCHANGED <<fsvars, changes, isDirty, lastChangeTime, now, tickReady, nextTick, stamped, hist, mgrMu, runChange, syncPc, convars>>

\* another goroutine calls SyncToGit
SyncCall(c) ==
  /\ pcRun # "exited"
  /\ syncPc[c] = "idle"
  /\ hist.calls < MaxSyncCalls
  /\ syncPc' = [syncPc EXCEPT ![c] = "lock"]
  /\ hist' = [hist EXCEPT !.calls = @ + 1]
  /\ UNCHANGED <<fsvars, changes, isDirty, lastChangeTime, now, tickReady, nextTick, pcRun, stamped, mgrMu, runChange, convars>>

\* the call of w is at pc
SetSyncPc(w, pc) ==
  IF w = RunLoop
  THEN pcRun' = (IF pc = "idle" THEN "select" ELSE pc) /\ UNCHANGED syncPc
  ELSE syncPc' = [syncPc EXCEPT ![w] = pc] /\ UNCHANGED pcRun

\* (mutant) a SyncToGit that does not take m.mu
SyncHolderNone(w) == Free
\* who holds m.mu once SyncToGit of w has passed m.mu.Lock
SyncHolder(w) == w

\* (mutant) a SyncToGit without its dirty check
SyncNeededAlways(d) == TRUE
\* if !m.isDirty { return nil }: whether SyncToGit goes on
SyncNeeded(d) == d

\* SyncToGit: m.mu.Lock, defer m.mu.Unlock, if !m.isDirty return nil
SyncEnter(w) ==
  /\ pcRun # "exited"
  /\ SyncPcOf(w) = "lock"
  /\ mgrMu = Free
  /\ IF SyncNeeded(isDirty)
     THEN /\ mgrMu' = SyncHolder(w)
          /\ SetSyncPc(w, SyncSteps[1])
          /\ hist' = [hist EXCEPT !.cycles = @ + 1, !.committed = FALSE]
     ELSE /\ SetSyncPc(w, "idle")
          /\ hist' = [hist EXCEPT !.skipped = @ + 1]
          /\ UNCHANGED mgrMu
  /\ UNCHANGED <<fsvars, changes, isDirty, lastChangeTime, now, tickReady, nextTick, stamped, runChange, convars>>

\* one step of SyncToGit of w; the deferred m.mu.Unlock runs when it returns; a
\* failing credential setup is log.Fatalf, which ends the process
SyncRun(w, ok) ==
  /\ pcRun # "exited"
  /\ InSync(w)
  /\ isDirty' = SyncDirty(isDirty, SyncPcOf(w), ok)
  /\ IF ~ok /\ SyncPcOf(w) = "auth"
     THEN pcRun' = "exited" /\ UNCHANGED <<syncPc, mgrMu>>
     ELSE IF ~ok \/ SyncPcOf(w) = "push"
     THEN SetSyncPc(w, "idle") /\ mgrMu' = Free
     ELSE SetSyncPc(w, NextSyncStep(SyncPcOf(w))) /\ UNCHANGED mgrMu
  /\ hist' = [hist EXCEPT !.commits = IF ok /\ SyncPcOf(w) = "commit" THEN @ + 1 ELSE @,
                          !.committed = @ \/ (ok /\ SyncPcOf(w) = "commit"),
                          !.pushes = IF ok /\ SyncPcOf(w) = "push" THEN @ + 1 ELSE @,
                          !.failures = IF ok THEN @ ELSE @ + 1]
  /\ UNCHANGED <<fsvars, changes, lastChangeTime, now, tickReady, nextTick, stamped, runChange, convars>>

\* the goroutines are served at once: time passes only when Run waits in its
\* select with nothing ready and no call of SyncToGit is under way
AdvanceTimeLock ==
  /\ \A c \in Callers : stamped[c] = NoStamp
  /\ \A c \in SyncCallers : syncPc[c] = "idle"
  /\ pcRun = "select" /\ changes = << >> /\ ~tickReady
  /\ Clock(MaxLockTime)

\* the steps of SyncToGit fail at most MaxLockFail times
NextLock ==
  \/ \E p \in {<<"a">>} : pcRun # "exited" /\ hist.emitted < MaxLockEmit /\ MgrStamp(1, p, "write")
  \/ pcRun # "exited" /\ MgrSend(1)
  \/ LockRunRecv
  \/ LockRunRecord
  \/ LockRunTick
  \/ LockRunDue
  \/ \E c \in SyncCallers : SyncCall(c)
  \/ \E w \in {RunLoop} \cup SyncCallers : SyncEnter(w)
  \/ \E w \in {RunLoop} \cup SyncCallers, ok \in BOOLEAN :
       (ok \/ hist.failures < MaxLockFail) /\ SyncRun(w, ok)
  \/ AdvanceTimeLock
SpecLock == InitMgr /\ [][NextLock]_vars

\* a flood: after MaxFloodLead events have made Run start a cycle, the callers emit
\* while SyncToGit runs, the first ChanCap events of the flood within one step of
\* SyncToGit, and the cycle within one step of the clock (time passes while Run
\* waits in its select); the clock stops at MaxFloodTime, events are
\* stamped early enough for the silence after them to be over by then, and the
\* ticker goes on ticking at the horizon. The steps of SyncToGit fail at most
\* MaxFloodFail times and the credentials are there.
FloodStamp(c, p) ==
  /\ \/ hist.emitted < MaxFloodLead
     \/ pcRun \notin {"select", "exited"} /\ hist.emitted < MaxFloodEmit
  /\ now + SyncInterval <= MaxFloodTime
  /\ MgrStamp(c, p, "write")
FloodSyncStep(ok) ==
  /\ ok \/ (pcRun # "auth" /\ hist.failures < MaxFloodFail)
  /\ ~(hist.emitted > MaxFloodLead /\ hist.emitted < MaxFloodLead + ChanCap)
  /\ SyncStep(ok)
AdvanceTimeFlood == Prompt /\ pcRun = "select" /\ Clock(MaxFloodTime)
LateTick ==
  /\ now = MaxFloodTime
  /\ ~tickReady
  /\ tickReady' = TRUE
  /\ UNCHANGED <<fsvars, changes, isDirty, lastChangeTime, now, nextTick, pcRun, stamped, hist, mgrMu, runChange, syncPc, convars>>
NextFlood ==
  \/ \E c \in Callers :
       FloodStamp(c, IF hist.emitted < MaxFloodLead + ChanCap THEN <<"a">> ELSE <<"b">>)
  \/ \E c \in Callers : MgrSend(c)
  \/ RunRecv
  \/ RunTick
  \/ \E ok \in BOOLEAN : FloodSyncStep(ok)
  \/ AdvanceTimeFlood
  \/ LateTick
\* Run is scheduled, SyncToGit goes on, the callers finish their sends, time passes
FairFlood ==
  /\ WF_vars(RunRecv)
  /\ WF_vars(RunTick)
  /\ WF_vars(FloodSyncStep(TRUE))
  /\ WF_vars(\E c \in Callers : MgrSend(c))
  /\ WF_vars(AdvanceTimeFlood)
  /\ WF_vars(LateTick)
SpecFlood == InitMgr /\ [][NextFlood]_vars /\ FairFlood

Next ==
  \/ \E fail \in BOOLEAN : OnAdd(fail)
  \/ \E f \in NodeIds, off \in TreeOffs, data \in TreeData : nops < MaxOps /\ FsWrite(f, off, data)
  \/ \E f \in NodeIds, off \in TreeOffs, n \in {MaxRead} : nops < MaxOps /\ FsRead(f, off, n)
  \/ \E f \in NodeIds, size \in {0 - 1, 0, 1} : nops < MaxOps /\ FsSetattr(f, size)
  \/ \E f \in NodeIds, outcome \in {"ok", "open", "write"}, k \in 0..(MaxOff + 2) : nops < MaxOps /\ FsFsync(f, outcome, k)
  \/ \E f \in NodeIds : nops < MaxOps /\ FsFileUnlink(f)
  \/ \E d \in NodeIds, name \in Names, fail \in BOOLEAN : nops < MaxOps /\ FsCreate(d, name, fail)
  \/ \E d \in NodeIds, name \in Names, fail \in BOOLEAN : nops < MaxOps /\ FsMkdir(d, name, fail)
  \/ \E d \in NodeIds, name \in Names, fail \in BOOLEAN : nops < MaxOps /\ FsUnlink(d, name, fail)
  \/ \E d \in NodeIds, name \in Names, fail \in {"", "readdir", "remove"} : nops < MaxOps /\ FsRmdir(d, name, fail)
  \/ \E d \in NodeIds, oldName \in Names, np \in NodeIds, newName \in Names, fail \in BOOLEAN :
       nops < MaxOps /\ FsRename(d, oldName, np, newName, fail)

Spec == Init /\ [][Next]_vars

\* the handlers with the listing of a directory and Getattr, and called also for inputs the
\* kernel does not send: a newParent of another tree instance, a name with no child
NextDirect ==
  \/ Next
  \/ \E d \in NodeIds : nops < MaxOps /\ FsReaddir(d)
  \/ \E f \in NodeIds : nops < MaxOps /\ FsGetattr(f)
  \/ \E d \in NodeIds, oldName \in Names, newName \in Names, fail \in BOOLEAN :
       nops < MaxOps /\ FsRenameForeign(d, oldName, newName, fail)
  \/ \E d \in NodeIds, name \in Names : nops < MaxOps /\ FsUnlinkAbsent(d, name)
SpecDirect == Init /\ [][NextDirect]_vars

\* the mount alone, on every checkout of WalkRepos
InitWalk ==
  /\ phase = "new"
  /\ kind = <<"root">>
  /\ path = << << >> >>
  /\ content = << << >> >>
  /\ dirty = <<FALSE>>
  /\ children = <<EmptyMap>>
  /\ wt \in WalkRepos
  /\ last = NoCall
  /\ nops = 0
  /\ InitManager
  /\ thr = [t \in Threads |-> NoThread]
  /\ mu = [n \in 1..MaxNodes |-> 0]
SpecWalk == InitWalk /\ [][\E fail \in BOOLEAN : OnAdd(fail)]_vars

\* the file handlers alone, on the checkout that has files, with more offsets and data
InitFile == Init /\ wt = RepoSmall
NextFile ==
  \/ OnAdd(FALSE)
  \/ \E f \in NodeIds, off \in 0..MaxOff, data \in FileData : nops < MaxFileOps /\ FsWrite(f, off, data)
  \/ \E f \in NodeIds, off \in 0..(MaxOff + 1), n \in 0..MaxRead : nops < MaxFileOps /\ FsRead(f, off, n)
  \/ \E f \in NodeIds, size \in (0 - 1)..MaxSize : nops < MaxFileOps /\ FsSetattr(f, size)
  \/ \E f \in NodeIds, outcome \in {"ok", "open", "write"}, k \in 0..(MaxOff + 2) : nops < MaxFileOps /\ FsFsync(f, outcome, k)
  \/ \E f \in NodeIds : nops < MaxFileOps /\ FsFileUnlink(f)
SpecFile == InitFile /\ [][NextFile]_vars

\* the directory handlers that remove and create files, and Write and Fsync on
\* attached nodes and through handles of removed ones, on the checkout that has files
NextHandle ==
  \/ OnAdd(FALSE)
  \/ \E d \in NodeIds, name \in Names, fail \in BOOLEAN : nops < MaxOps /\ FsUnlink(d, name, fail)
  \/ \E d \in NodeIds, name \in Names, fail \in BOOLEAN : nops < MaxOps /\ FsCreate(d, name, fail)
  \/ \E f \in NodeIds, off \in TreeOffs, data \in TreeData : nops < MaxOps /\ FsWrite(f, off, data)
  \/ \E f \in NodeIds, outcome \in {"ok", "open", "write"}, k \in 0..(MaxOff + 2) : nops < MaxOps /\ FsFsync(f, outcome, k)
  \/ \E f \in NodeIds, off \in TreeOffs, data \in TreeData : nops < MaxOps /\ FsWriteHandle(f, off, data)
  \/ \E f \in NodeIds, outcome \in {"ok", "open", "write"}, k \in 0..(MaxOff + 2) : nops < MaxOps /\ FsFsyncHandle(f, outcome, k)
SpecHandle == InitFile /\ [][NextHandle]_vars

\* the file handlers again, every offset, length and size, in shorter runs
NextBuf ==
  \/ OnAdd(FALSE)
  \/ \E f \in NodeIds, off \in 0..MaxOff, data \in FileData : nops < MaxBufOps /\ FsWrite(f, off, data)
  \/ \E f \in NodeIds, off \in 0..(MaxOff + 1), n \in 0..MaxRead : nops < MaxBufOps /\ FsRead(f, off, n)
  \/ \E f \in NodeIds, size \in (0 - 1)..MaxSize : nops < MaxBufOps /\ FsSetattr(f, size)
  \/ \E f \in NodeIds, outcome \in {"ok", "open", "write"}, k \in 0..(MaxOff + 2) : nops < MaxBufOps /\ FsFsync(f, outcome, k)
  \/ \E f \in NodeIds : nops < MaxBufOps /\ FsFileUnlink(f)
SpecBuf == InitFile /\ [][NextBuf]_vars

\* the handlers and the manager together, on the checkout that has files: the
\* handlers are called, one call of each kind of input, right after the mount and
\* while SyncToGit runs
\* (mutant) a NotifyChange that takes the lock SyncToGit holds
NotifyReadyLocked(pc) == pc = "select"
\* what NotifyChange waits for before it returns: it takes no lock and its send
\* has a default case
NotifyReady(pc) == TRUE
BusyCall ==
  /\ phase = "mounted" /\ nops < MaxBusyOps /\ NotifyReady(pcRun)
  /\ now = 0 \/ pcRun # "select"
BusyCreate == \E d \in NodeIds, name \in Names : BusyCall /\ FsCreate(d, name, FALSE)
BusyMkdir == \E d \in NodeIds, name \in Names : BusyCall /\ FsMkdir(d, name, FALSE)
BusyUnlink == \E d \in NodeIds, name \in Names : BusyCall /\ FsUnlink(d, name, FALSE)
BusyRmdir == \E d \in NodeIds, name \in Names : BusyCall /\ FsRmdir(d, name, "")
BusyRename ==
  \E d \in NodeIds, oldName \in Names, np \in NodeIds, newName \in Names :
     BusyCall /\ FsRename(d, oldName, np, newName, FALSE)
BusyRead == \E f \in NodeIds : BusyCall /\ FsRead(f, 0, MaxRead)
BusyWrite == \E f \in NodeIds : BusyCall /\ FsWrite(f, 0, <<1>>)
BusySetattr == \E f \in NodeIds : BusyCall /\ FsSetattr(f, 0)
BusyFsync == \E f \in NodeIds : BusyCall /\ FsFsync(f, "ok", 0)
NextBusy ==
  \/ OnAdd(FALSE)
  \/ BusyCreate
  \/ BusyMkdir
  \/ BusyUnlink
  \/ BusyRmdir
  \/ BusyRename
  \/ BusyRead
  \/ BusyWrite
  \/ BusySetattr
  \/ BusyFsync
  \/ RunRecv
  \/ RunTick
  \/ SyncStep(TRUE)
  \/ Prompt /\ pcRun = "select" /\ AdvanceTime
SpecBusy == InitFile /\ [][NextBusy]_vars

\* the handlers with their failures and the manager together: the calls come
\* right after the mount and while SyncToGit runs
NextEvents ==
  \/ OnAdd(FALSE)
  \/ \E d \in NodeIds, name \in Names, fail \in BOOLEAN : BusyCall /\ FsCreate(d, name, fail)
  \/ \E d \in NodeIds, name \in Names, fail \in BOOLEAN : BusyCall /\ FsMkdir(d, name, fail)
  \/ \E d \in NodeIds, name \in Names, fail \in BOOLEAN : BusyCall /\ FsUnlink(d, name, fail)
  \/ \E d \in NodeIds, name \in Names, fail \in {"", "readdir", "remove"} : BusyCall /\ FsRmdir(d, name, fail)
  \/ \E d \in NodeIds, oldName \in Names, np \in NodeIds, newName \in Names, fail \in BOOLEAN :
       BusyCall /\ FsRename(d, oldName, np, newName, fail)
  \/ \E f \in NodeIds : BusyCall /\ FsRead(f, 0, MaxRead)
  \/ \E f \in NodeIds : BusyCall /\ FsWrite(f, 0, <<1>>)
  \/ \E f \in NodeIds, size \in {0 - 1, 0} : BusyCall /\ FsSetattr(f, size)
  \/ \E f \in NodeIds, outcome \in {"ok", "open", "write"} : BusyCall /\ FsFsync(f, outcome, 0)
  \/ \E f \in NodeIds : BusyCall /\ FsFileUnlink(f)
  \/ RunRecv
  \/ RunTick
  \/ SyncStep(TRUE)
  \/ Prompt /\ pcRun = "select" /\ AdvanceTime
SpecEvents == InitFile /\ [][NextEvents]_vars

\* ------------------------------------------------- handlers of one file, concurrent
\* The FUSE server runs every request in a goroutine; a GittyFile handler runs
\* under f.mu from its first statement to its return (defer f.mu.Unlock()).
\* a thread can begin a call: the calls begun so far are fewer than MaxConcOps
ConcFree(t) ==
  /\ phase = "mounted" /\ thr[t].pc = "idle"
  /\ nops + Cardinality({u \in Threads : thr[u].pc # "idle"}) < MaxConcOps

\* Write, from Lock to the end of the growth: make() gives the buffer a new array,
\* and the results that were slices of the old one keep the old one
ConcWriteCall(t, f, off, data) ==
  /\ ConcFree(t)
  /\ f \in AttachedFiles
  /\ mu[f] = 0
  /\ mu' = [mu EXCEPT ![f] = t]
  /\ LET grows == Len(content[f]) < off + Len(data)
     IN /\ content' = [content EXCEPT ![f] =
                         IF grows THEN @ \o Zeros(off + Len(data) - Len(@)) ELSE @]
        /\ thr' = [u \in Threads |->
                    IF u = t
                    THEN [NoThread EXCEPT !.op = "Write", !.pc = "copy", !.node = f, !.off = off,
                                          !.data = data, !.held = content[f]]
                    ELSE IF grows /\ (thr[u].op = "Read" /\ thr[u].pc = "reply" /\ thr[u].node = f /\ thr[u].alias)
                    THEN [thr[u] EXCEPT !.alias = FALSE,
                                        !.view = SubSeq(content[f], thr[u].lo + 1, thr[u].hi)]
                    ELSE thr[u]]
  /\ UNCHANGED <<phase, kind, path, dirty, children, wt, last, nops, changes, mgrvars>>

\* copy(f.content[off:], data), a byte at a time
ConcWriteCopy(t) ==
  /\ thr[t].op = "Write" /\ thr[t].pc = "copy"
  /\ thr[t].i < Len(thr[t].data)
  /\ content' = [content EXCEPT ![thr[t].node][thr[t].off + thr[t].i + 1] = thr[t].data[thr[t].i + 1]]
  /\ thr' = [thr EXCEPT ![t].i = @ + 1]
  /\ UNCHANGED <<phase, kind, path, dirty, children, wt, last, nops, changes, mgrvars, mu>>

\* f.dirty = true, return, Unlock
ConcWriteDone(t) ==
  /\ thr[t].op = "Write" /\ thr[t].pc = "copy"
  /\ thr[t].i = Len(thr[t].data)
  /\ dirty' = [dirty EXCEPT ![thr[t].node] = TRUE]
  /\ mu' = [mu EXCEPT ![thr[t].node] = 0]
  /\ last' = [NoCall EXCEPT !.op = "Write", !.node = thr[t].node, !.off = thr[t].off,
                            !.data = thr[t].data, !.n = Len(thr[t].data)]
  /\ thr' = [thr EXCEPT ![t] = NoThread]
  /\ nops' = nops + 1
  /\ UNCHANGED <<phase, kind, path, content, children, wt, changes, mgrvars>>

\* Read, from Lock to Unlock: the handler returns fuse.ReadResultData(f.content[off:end]),
\* a slice of the buffer's array (or a new empty slice at or past the end)
ConcReadCall(t, f, off, n) ==
  /\ ConcFree(t)
  /\ f \in AttachedFiles
  /\ mu[f] = 0
  /\ thr' = [thr EXCEPT ![t] =
               [NoThread EXCEPT !.op = "Read", !.pc = "reply", !.node = f, !.off = off,
                                !.lo = IF off >= Len(content[f]) THEN 0 ELSE off,
                                !.hi = IF off >= Len(content[f]) THEN 0 ELSE Min(off + n, Len(content[f])),
                                !.alias = off < Len(content[f]),
                                !.held = ReadBuf(content[f], off, n)]]
  /\ UNCHANGED <<fsvars, changes, mgrvars, mu>>

\* the server sends the result to the kernel after the handler has returned: it
\* reads the bytes of the slice then
ConcReadReply(t) ==
  /\ thr[t].op = "Read" /\ thr[t].pc = "reply"
  /\ last' = [NoCall EXCEPT !.op = "Read", !.node = thr[t].node, !.off = thr[t].off,
                            !.out = IF thr[t].alias
                                    THEN SubSeq(content[thr[t].node], thr[t].lo + 1, thr[t].hi)
                                    ELSE thr[t].view]
  /\ thr' = [thr EXCEPT ![t] = NoThread]
  /\ nops' = nops + 1
  /\ UNCHANGED <<phase, kind, path, content, dirty, children, wt, changes, mgrvars, mu>>

\* Fsync, from Lock to the dirty test: a clean node returns at once
ConcFsyncCall(t, f) ==
  /\ ConcFree(t)
  /\ f \in AttachedFiles
  /\ mu[f] = 0
  /\ IF dirty[f]
     THEN /\ mu' = [mu EXCEPT ![f] = t]
          /\ thr' = [thr EXCEPT ![t] = [NoThread EXCEPT !.op = "Fsync", !.pc = "open", !.node = f,
                                                        !.held = content[f]]]
          /\ UNCHANGED <<last, nops>>
     ELSE /\ last' = [NoCall EXCEPT !.op = "Fsync", !.node = f]
          /\ nops' = nops + 1
          /\ UNCHANGED <<thr, mu>>
  /\ UNCHANGED <<phase, kind, path, content, dirty, children, wt, changes, mgrvars>>

\* OpenFile(f.path, O_WRONLY|O_CREATE|O_TRUNC)
ConcFsyncOpen(t) ==
  /\ thr[t].op = "Fsync" /\ thr[t].pc = "open"
  /\ ~WtIsDir(wt, path[thr[t].node])
  /\ wt' = FsyncEntry(wt, path[thr[t].node], << >>)
  /\ thr' = [thr EXCEPT ![t].pc = "write"]
  /\ UNCHANGED <<phase, kind, path, content, dirty, children, last, nops, changes, mgrvars, mu>>

\* file.Write(f.content), f.dirty = false, NotifyChange, return, Unlock
ConcFsyncWrite(t) ==
  /\ thr[t].op = "Fsync" /\ thr[t].pc = "write"
  /\ LET f == thr[t].node
     IN /\ wt' = FsyncEntry(wt, path[f], content[f])
        /\ dirty' = [dirty EXCEPT ![f] = FALSE]
        /\ changes' = NotifyChange(changes, path[f], "write", now)
        /\ mu' = [mu EXCEPT ![f] = 0]
        /\ last' = [NoCall EXCEPT !.op = "Fsync", !.node = f, !.events = <<Event(path[f], "write")>>]
  /\ thr' = [thr EXCEPT ![t] = NoThread]
  /\ nops' = nops + 1
  /\ UNCHANGED <<phase, kind, path, content, children, mgrvars>>

NextFileConc ==
  \/ OnAdd(FALSE)
  \/ \E t \in Threads, f \in NodeIds, off \in TreeOffs, data \in TreeData : ConcWriteCall(t, f, off, data)
  \/ \E t \in Threads : ConcWriteCopy(t)
  \/ \E t \in Threads : ConcWriteDone(t)
  \/ \E t \in Threads, f \in NodeIds, off \in TreeOffs : ConcReadCall(t, f, off, MaxRead)
  \/ \E t \in Threads : ConcReadReply(t)
  \/ \E t \in Threads, f \in NodeIds : ConcFsyncCall(t, f)
  \/ \E t \in Threads : ConcFsyncOpen(t)
  \/ \E t \in Threads : ConcFsyncWrite(t)
SpecFileConc == InitFile /\ [][NextFileConc]_vars

\* ------------------------------------------------- handlers of a directory, concurrent
\* A GittyDir has no lock of its own: a handler changes the working tree, then the
\* children map (AddChild and RmChild lock the Inode for the one call), and calls
\* that run at the same time interleave between the two. Each call has the
\* arguments the tree allows when it begins.
\* Create up to wt.Create
ConcCreateCall(t, d, name) ==
  /\ ConcFree(t)
  /\ d \in AttachedDirs
  /\ name \notin DOMAIN children[d]
  /\ Len(kind) + Cardinality({u \in Threads : thr[u].op = "Create"}) < MaxNodes
  /\ LET p == Append(path[d], name)
     IN IF WtIsDir(wt, p)
        THEN /\ last' = [NoCall EXCEPT !.op = "Create", !.node = d, !.name = name, !.errno = EIO, !.wtErr = TRUE]
             /\ nops' = nops + 1
             /\ UNCHANGED <<wt, thr>>
        ELSE /\ wt' = WtWriteFile(wt, p, << >>)
             /\ thr' = [thr EXCEPT ![t] = [NoThread EXCEPT !.op = "Create", !.pc = "tree", !.node = d, !.name = name]]
             /\ UNCHANGED <<last, nops>>
  /\ UNCHANGED <<phase, kind, path, content, dirty, children, changes, mgrvars, mu>>

\* Create from NewPersistentInode to the return
ConcCreateDone(t) ==
  /\ thr[t].op = "Create" /\ thr[t].pc = "tree"
  /\ LET d == thr[t].node
         name == thr[t].name
         p == Append(path[d], name)
     IN /\ kind' = Append(kind, "file")
        /\ path' = Append(path, p)
        /\ content' = Append(content, << >>)
        /\ dirty' = Append(dirty, FALSE)
        /\ children' = AddChild(Append(children, EmptyMap), d, name, NewNode)
        /\ changes' = NotifyChange(changes, p, "create", now)
        /\ last' = [NoCall EXCEPT !.op = "Create", !.node = d, !.name = name,
                                  !.events = <<Event(p, "create")>>]
  /\ thr' = [thr EXCEPT ![t] = NoThread]
  /\ nops' = nops + 1
  /\ UNCHANGED <<phase, wt, mgrvars, mu>>

\* Unlink up to wt.Remove
ConcUnlinkCall(t, d, name) ==
  /\ ConcFree(t)
  /\ d \in AttachedDirs
  /\ name \in DOMAIN children[d]
  /\ kind[children[d][name]] = "file"
  /\ LET p == Append(path[d], name)
     IN IF ~WtHas(wt, p)
        THEN /\ last' = [NoCall EXCEPT !.op = "Unlink", !.node = d, !.name = name, !.errno = ENOENT, !.wtErr = TRUE]
             /\ nops' = nops + 1
             /\ UNCHANGED <<wt, thr>>
        ELSE /\ wt' = WtRemove(wt, p)
             /\ thr' = [thr EXCEPT ![t] = [NoThread EXCEPT !.op = "Unlink", !.pc = "tree", !.node = d, !.name = name]]
             /\ UNCHANGED <<last, nops>>
  /\ UNCHANGED <<phase, kind, path, content, dirty, children, changes, mgrvars, mu>>

\* Unlink from RmChild to the return
ConcUnlinkDone(t) ==
  /\ thr[t].op = "Unlink" /\ thr[t].pc = "tree"
  /\ LET d == thr[t].node
         name == thr[t].name
         p == Append(path[d], name)
     IN /\ children' = RmChild(children, d, name)
        /\ changes' = NotifyChange(changes, p, "delete", now)
        /\ last' = [NoCall EXCEPT !.op = "Unlink", !.node = d, !.name = name,
                                  !.events = <<Event(p, "delete")>>]
  /\ thr' = [thr EXCEPT ![t] = NoThread]
  /\ nops' = nops + 1
  /\ UNCHANGED <<phase, kind, path, content, dirty, wt, mgrvars, mu>>

\* Rename of a file up to wt.Rename
ConcRenameCall(t, d, oldName, np, newName) ==
  /\ ConcFree(t)
  /\ d \in AttachedDirs
  /\ np \in AttachedDirs
  /\ oldName \in DOMAIN children[d]
  /\ kind[children[d][oldName]] = "file"
  /\ <<np, newName>> # <<d, oldName>>
  /\ newName \in DOMAIN children[np] => kind[children[np][newName]] = "file"
  /\ LET oldPath == Append(path[d], oldName)
         newPath == RenameTarget(np, newName)[2]
     IN IF ~WtHas(wt, oldPath)
        THEN /\ last' = [NoCall EXCEPT !.op = "Rename", !.node = d, !.name = oldName, !.np = np,
                                       !.newName = newName, !.errno = EIO, !.wtErr = TRUE]
             /\ nops' = nops + 1
             /\ UNCHANGED <<wt, thr>>
        ELSE /\ wt' = WtRename(wt, oldPath, newPath)
             /\ thr' = [thr EXCEPT ![t] = [NoThread EXCEPT !.op = "Rename", !.pc = "tree", !.node = d,
                                                           !.name = oldName, !.np = np, !.newName = newName]]
             /\ UNCHANGED <<last, nops>>
  /\ UNCHANGED <<phase, kind, path, content, dirty, children, changes, mgrvars, mu>>

\* Rename from findFile to the return
ConcRenameDone(t) ==
  /\ thr[t].op = "Rename" /\ thr[t].pc = "tree"
  /\ LET d == thr[t].node
         oldName == thr[t].name
         oldPath == Append(path[d], oldName)
         newParentPath == RenameTarget(thr[t].np, thr[t].newName)[1]
         newPath == RenameTarget(thr[t].np, thr[t].newName)[2]
         ret(e) == [NoCall EXCEPT !.op = "Rename", !.node = d, !.name = oldName, !.np = thr[t].np,
                                  !.newName = thr[t].newName, !.errno = e]
         oldFile == findFile(children, oldPath)
         newParentDir == findFile(children, newParentPath)
         oldParentDir == ParentOf(oldFile)
     IN IF oldParentDir = 0
        THEN /\ phase' = "crashed"
             /\ last' = ret(PANIC)
             /\ UNCHANGED <<path, children, changes>>
        ELSE IF oldName \notin DOMAIN children[oldParentDir]
        THEN /\ last' = ret(EIO)
             /\ UNCHANGED <<phase, path, children, changes>>
        ELSE IF kind[oldFile] # "file"
        THEN /\ children' = RmChild(children, oldParentDir, oldName)
             /\ phase' = "crashed"
             /\ last' = ret(PANIC)
             /\ UNCHANGED <<path, changes>>
        ELSE /\ children' = AddChild(RmChild(children, oldParentDir, oldName), newParentDir, thr[t].newName, oldFile)
             /\ path' = [path EXCEPT ![oldFile] = RenamedPath(@, newPath)]
             /\ LET ev == RenameEvents(oldPath, newPath)
                IN /\ changes' = NotifyChange(NotifyChange(changes, ev[1].Path, ev[1].Operation, now),
                                              ev[2].Path, ev[2].Operation, now)
                   /\ last' = [ret(OK) EXCEPT !.events = ev]
             /\ UNCHANGED phase
  /\ thr' = [thr EXCEPT ![t] = NoThread]
  /\ nops' = nops + 1
  /\ UNCHANGED <<kind, content, dirty, wt, mgrvars, mu>>

NextDirConc ==
  \/ OnAdd(FALSE)
  \/ \E t \in Threads, d \in NodeIds, name \in Names : ConcCreateCall(t, d, name)
  \/ \E t \in Threads : ConcCreateDone(t)
  \/ \E t \in Threads, d \in NodeIds, name \in Names : ConcUnlinkCall(t, d, name)
  \/ \E t \in Threads : ConcUnlinkDone(t)
  \/ \E t \in Threads, d \in NodeIds, oldName \in Names, np \in NodeIds, newName \in Names :
       ConcRenameCall(t, d, oldName, np, newName)
  \/ \E t \in Threads : ConcRenameDone(t)
SpecDirConc == InitFile /\ [][NextDirConc]_vars

\* a step that is a call of the handler op
Called(op) == nops' = nops + 1 /\ last'.op = op
\* the entries of the children maps that hold node n
ParentsOf(ch, n) == {dk \in (DOMAIN ch) \X Names : dk[2] \in DOMAIN ch[dk[1]] /\ ch[dk[1]][dk[2]] = n}

\* ------------------------------------------------------------------ C1
\* C1: every attached file node with dirty = FALSE holds a buffer equal to the
\* content the working tree stores at the node's position in the tree.
C1_CleanBufferIsBacking ==
  phase = "mounted" =>
    \A f \in AttachedFiles :
      ~dirty[f] => WtHas(wt, TreePath(f)) /\ wt[TreePath(f)] = FileEntry(content[f])

\* ------------------------------------------------------------------ C2
\* C2: an Fsync of a dirty node that the working tree accepts leaves exactly the
\* buffer at the node's path (nothing of the old entry survives), clears dirty and
\* emits one write event for that path; an Fsync of a clean node changes nothing
\* and emits nothing.
C2_FsyncRewrites ==
  [][Called("Fsync") =>
      LET f == last'.node
      IN IF dirty[f]
         THEN ~last'.wtErr =>
                /\ last'.errno = OK
                /\ wt'[path[f]] = FileEntry(content[f])
                /\ \A q \in DOMAIN wt : q # path[f] => wt'[q] = wt[q]
                /\ content' = content
                /\ dirty' = [dirty EXCEPT ![f] = FALSE]
                /\ last'.events = <<Event(path[f], "write")>>
                /\ changes' = Append(changes, Notification(path[f], "write", now))
         ELSE /\ last'.errno = OK
              /\ wt' = wt /\ content' = content /\ dirty' = dirty
              /\ last'.events = << >> /\ changes' = changes]_vars
\* a dirty buffer of one byte has replaced the two bytes the entry "a" had
C2_Witness ==
  /\ last.op = "Fsync" /\ last.node = 2 /\ nops = 2 /\ last.events # << >>
  /\ Len(content[2]) = 1 /\ wt[<<"a">>] = FileEntry(content[2])

\* ------------------------------------------------------------------ C3
\* C3: right after Write(o, d) the write has reported len(d) bytes and a
\* Read(o, len(d)) of the same file returns d.
C3_WriteReadRoundTrip ==
  last.op = "Write" =>
    /\ last.n = Len(last.data)
    /\ ReadBuf(content[last.node], last.off, Len(last.data)) = last.data
\* the write started past the end of the buffer it found (the file "b/a" is one byte long)
C3_Witness ==
  /\ last.op = "Write" /\ nops = 1 /\ last.node = 4 /\ last.off = 2 /\ last.data = <<2, 1>>
  /\ content[4] = <<2, 0, 2, 1>>

\* ------------------------------------------------------------------ C4
\* C4: after a successful Rename of a file, the new name under the new parent is
\* the node that holds the content the file had, a Read of it returns that
\* content, and the old name is no longer a child of the old parent.
C4_RenameKeepsContent ==
  [][Called("Rename") /\ last'.errno = OK =>
      LET d == last'.node
          src == children[d][last'.name]
          np == last'.np
      IN /\ kind[src] = "file"
         /\ last'.newName \in DOMAIN children'[np]
         /\ LET b == children'[np][last'.newName]
            IN /\ kind'[b] = "file"
               /\ ReadBuf(content'[b], 0, Len(content[src]) + 1) = content[src]
               /\ dirty'[b] = dirty[src]
         /\ last'.name \notin DOMAIN children'[d]]_vars
\* a file with unsynchronized content has moved to another directory
C4_Witness ==
  /\ last.op = "Rename" /\ last.errno = OK /\ last.node # last.np
  /\ last.newName \in DOMAIN children[last.np]
  /\ dirty[children[last.np][last.newName]]
  /\ content[children[last.np][last.newName]] # << >>

\* ------------------------------------------------------------------ C5
\* C5: the path stored in every attached node is the path of its position in the
\* tree (the names from the root down to it).
C5_PathIsTreePosition ==
  phase = "mounted" => \A n \in Attached : path[n] = TreePath(n)

\* ------------------------------------------------------------------ C6
\* C6: after any Rename, however it ends, the renamed node is a child of exactly
\* one directory under exactly one name.
C6_RenamedNodeHasOneParent ==
  [][Called("Rename") =>
      Cardinality(ParentsOf(children', children[last'.node][last'.name])) = 1]_vars

\* ------------------------------------------------------------------ C7
\* C7: a Rename whose working-tree rename fails returns EIO, leaves every children
\* map and every node path as they were and emits no event.
C7_FailedRenameLeavesTree ==
  [][Called("Rename") /\ last'.wtErr =>
      /\ last'.errno = EIO
      /\ children' = children /\ path' = path /\ kind' = kind
      /\ wt' = wt
      /\ last'.events = << >> /\ changes' = changes]_vars
C7_Witness ==
  /\ last.op = "Rename" /\ last.wtErr /\ last.errno = EIO
  /\ last.name \in DOMAIN children[last.node]

C9_DirtyTransitions ==
  [][isDirty' # isDirty =>
      IF isDirty'
      THEN pcRun = "select" /\ pcRun' = "select" /\ changes # << >> /\ changes' = Tail(changes)
      ELSE /\ pcRun = "push" /\ pcRun' = "select"
           /\ hist.committed /\ hist'.pushes = hist.pushes + 1
           /\ hist'.failures = hist.failures]_vars
\* the flag went up on an event and came down after a cycle, a failed one before it
C9_Witness == ~isDirty /\ hist.pushes = 1 /\ hist.failures >= 1 /\ hist.cycles >= 2

\* ------------------------------------------------------------------ C10
\* C10: as long as no cycle has failed, there are never more cycles than bursts of
\* events (events less than SyncInterval apart), and no cycle starts less than
\* SyncInterval after the last event of the burst it synchronizes.
C10_OneCyclePerBurst ==
  hist.failures = 0 => hist.cycles <= Len(hist.bursts) /\ ~hist.early

\* ------------------------------------------------------------------ C11
\* C11: Run enters SyncToGit only from its select, on a tick it found with isDirty
\* set and at least SyncInterval elapsed since the stamp of the last event it took
\* off the channel; every commit and every push is made with isDirty set and that
\* much time elapsed since lastChangeTime.
C11_CycleOnlyWhenDue ==
  [][/\ (pcRun = "select" /\ pcRun' \notin {"select", "exited"}) =>
          /\ tickReady /\ ~tickReady' /\ pcRun' = SyncSteps[1]
          /\ isDirty /\ now - lastChangeTime >= SyncInterval
     /\ (hist'.cycles # hist.cycles) => pcRun = "select" /\ pcRun' = SyncSteps[1]
     /\ (hist'.commits # hist.commits \/ hist'.pushes # hist.pushes) =>
          /\ pcRun \in {"commit", "push"}
          /\ isDirty /\ now - lastChangeTime >= SyncInterval]_vars
\* an event stamped after the start was taken off the channel, and the tick that
\* came SyncInterval after its stamp has started the cycle that now has its commit
C11_Witness ==
  /\ pcRun = "auth" /\ hist.commits = 1 /\ hist.cycles = 1 /\ isDirty
  /\ now - lastChangeTime = SyncInterval /\ lastChangeTime > 0

\* ------------------------------------------------------------------ C13
\* C13: whichever step of SyncToGit fails, isDirty stays set and Run is back in
\* its select, from where the next due tick starts the cycle again.
C13_FailureKeepsLoop ==
  [][hist'.failures # hist.failures =>
       /\ isDirty' /\ pcRun' = "select"
       /\ UNCHANGED <<changes, lastChangeTime, fsvars>>]_vars

\* ------------------------------------------------------------------ C12
\* C12: once an event has been dropped, Run is never idle and clean with an empty
\* channel before an Add that ran after the drop has been pushed, and (steps of
\* SyncToGit failing finitely often) such a push does come.
C12_DropLosesNothing ==
  /\ [](hist.lost # "no" /\ ~isDirty /\ pcRun = "select" => changes # << >>)
  /\ (hist.lost = "pending" ~> hist.lost = "no")
\* an event was dropped on the full channel and a later cycle has pushed
C12_Witness == hist.dropped >= 1 /\ hist.lost = "no" /\ ~isDirty /\ changes = << >>

\* ------------------------------------------------------------------ C14
\* C14: a caller that has built its notification can always complete the send,
\* whatever Run is doing; the channel never holds more than ChanCap notifications;
\* a send on a full channel leaves the channel as it was, any other send appends.
C14_SendNeverBlocks ==
  /\ [](Len(changes) <= ChanCap /\ \A c \in Callers : stamped[c] # NoStamp => ENABLED MgrSend(c))
  /\ [][\A c \in Callers : (stamped[c] # NoStamp /\ stamped'[c] = NoStamp) =>
          /\ Len(changes) = ChanCap => changes' = changes /\ hist'.dropped = hist.dropped + 1
          /\ Len(changes) < ChanCap => changes' = Append(changes, stamped[c])
          /\ UNCHANGED <<isDirty, lastChangeTime, pcRun>>]_vars
\* a notification was dropped on a channel that holds ChanCap of them, while
\* SyncToGit was in its push
C14_Witness == Len(changes) = ChanCap /\ hist.dropped = 1 /\ pcRun = "push"

\* ------------------------------------------------------------------ C18
\* C18: with Run and the callers served at once and no step of SyncToGit failing,
\* Run is never idle and dirty, with every event consumed, more than SyncInterval
\* after the stamp of the last one: the cycle has started by then.
C18_CycleWithinThreshold ==
  (/\ hist.failures = 0
   /\ isDirty /\ pcRun = "select" /\ changes = << >>
   /\ \A c \in Callers : stamped[c] = NoStamp)
  => now - lastChangeTime <= SyncInterval

\* ------------------------------------------------------------------ C19
\* C19: a Rename of a directory that the working tree accepts returns 0, leaves the
\* directory under newParent with the new name, and gives the directory and each
\* of its descendants the path with the new prefix.
C19_RenameDirectory ==
  [][(/\ Called("Rename")
      /\ kind[children[last'.node][last'.name]] = "dir"
      /\ ~last'.wtErr) =>
       LET src == children[last'.node][last'.name]
           oldPath == Append(path[last'.node], last'.name)
           newPath == Append(path[last'.np], last'.newName)
       IN /\ last'.errno = OK
          /\ last'.newName \in DOMAIN children'[last'.np]
          /\ children'[last'.np][last'.newName] = src
          /\ \A n \in Desc(src) \cup {src} :
               path'[n] = newPath \o SubSeq(path[n], Len(oldPath) + 1, Len(path[n]))]_vars

\* ------------------------------------------------------------------ C20
\* C20: a Rename that returns 0 has renamed the entry in the working tree, moved the
\* node under newParent, and sent delete for the old path and then create for the
\* new path, these two and nothing else; a Rename that returns an error (or does
\* not return) has sent nothing.
C20_RenameEvents ==
  [][Called("Rename") =>
       LET src == children[last'.node][last'.name]
           oldPath == Append(path[last'.node], last'.name)
           newPath == Append(path[last'.np], last'.newName)
       IN IF last'.errno = OK
          THEN /\ last'.events = <<Event(oldPath, "delete"), Event(newPath, "create")>>
               /\ changes' = changes \o <<Notification(oldPath, "delete", now),
                                           Notification(newPath, "create", now)>>
               /\ WtHas(wt', newPath) /\ ~WtHas(wt', oldPath)
               /\ last'.newName \in DOMAIN children'[last'.np]
               /\ children'[last'.np][last'.newName] = src
               /\ ParentsOf(children', src) = {<<last'.np, last'.newName>>}
          ELSE last'.events = << >> /\ changes' = changes]_vars
\* a file went from the directory b to the root, and the channel ends with the two
\* events of that move
C20_Witness ==
  /\ last.op = "Rename" /\ last.errno = OK /\ last.node # last.np /\ Len(changes) >= 2
  /\ changes[Len(changes) - 1].Operation = "delete"
  /\ changes[Len(changes) - 1].Path = Append(path[last.node], last.name)
  /\ changes[Len(changes)].Operation = "create"
  /\ changes[Len(changes)].Path = Append(path[last.np], last.newName)

\* ------------------------------------------------------------------ C17
\* C17: while SyncToGit is in its push (or in any other of its steps), every handler
\* that the tree has an input for can be called and returns: Create, Mkdir, Read,
\* Write, Setattr, Fsync whenever there is a directory with a free name or a file,
\* Unlink, Rmdir and Rename whenever there is a child to act on; a handler call
\* leaves the state of Run and SyncToGit alone, and only a step of SyncToGit pushes.
C17_HandlersNeverWait ==
  /\ []((phase = "mounted" /\ nops < MaxBusyOps /\ pcRun \notin {"select", "exited"}) =>
         /\ (/\ Len(kind) < MaxNodes
             /\ \E d \in AttachedDirs, n \in Names : n \notin DOMAIN children[d]) =>
               ENABLED BusyCreate /\ ENABLED BusyMkdir
         /\ AttachedFiles # {} =>
               ENABLED BusyRead /\ ENABLED BusyWrite /\ ENABLED BusySetattr /\ ENABLED BusyFsync
         /\ (\E d \in AttachedDirs, n \in Names :
                n \in DOMAIN children[d] /\ kind[children[d][n]] = "file") =>
               ENABLED BusyUnlink /\ ENABLED BusyRename
         /\ (\E d \in AttachedDirs, n \in Names :
                n \in DOMAIN children[d] /\ kind[children[d][n]] = "dir") => ENABLED BusyRmdir)
  /\ [][/\ nops' # nops => last'.op # "none" /\ UNCHANGED mgrvars
        /\ hist'.pushes # hist.pushes => pcRun = "push" /\ nops' = nops]_vars
\* a file was created while SyncToGit was in its push, and its event is queued
C17_Witness ==
  /\ pcRun = "push" /\ last.op = "Create" /\ last.errno = OK /\ nops = 2
  /\ changes # << >> /\ changes[Len(changes)].Operation = "create"
  /\ changes[Len(changes)].Time = now /\ now >= lastChangeTime + SyncInterval

\* ------------------------------------------------------------------ C16
\* C16: at most one call is inside Write or Fsync of a node; a call on another
\* node can begin while one is; what an Fsync stores in the working tree is the
\* buffer as it was when the Fsync took the lock; and what a Read delivers is what
\* the buffer held when the Read had the lock, or at least nothing a Write has
\* stored only part of.
C16_PerFileSerialization ==
  /\ [](\A f \in NodeIds :
         /\ Cardinality({t \in Threads : thr[t].node = f /\ thr[t].pc \in {"copy", "open", "write"}}) <= 1
         /\ \A g \in AttachedFiles, t \in Threads :
              (mu[f] # 0 /\ mu[g] = 0 /\ ConcFree(t)) => ENABLED ConcReadCall(t, g, 0, MaxRead))
  /\ [][\A t \in Threads :
          /\ (thr[t].op = "Fsync" /\ thr[t].pc = "write" /\ thr'[t].pc = "idle") =>
               wt'[path[thr[t].node]] = FileEntry(thr[t].held)
          /\ (thr[t].op = "Read" /\ thr[t].pc = "reply" /\ thr'[t].pc = "idle") =>
               \/ last'.out = thr[t].held
               \/ ~\E u \in Threads :
                     /\ thr[u].op = "Write" /\ thr[u].node = thr[t].node
                     /\ thr[u].i > 0 /\ thr[u].i < Len(thr[u].data)]_vars

\* ------------------------------------------------------------------ C15
\* C15: whenever no Create, Unlink or Rename is in progress, every directory of
\* the tree has exactly the children its entry in the working tree has: no child
\* without a backing entry, no backing entry without a child.
C15_DirectoryOpsSerialized ==
  (phase = "mounted" /\ \A t \in Threads : thr[t].pc = "idle") =>
    \A d \in AttachedDirs, n \in Names :
      n \in DOMAIN children[d] <=> WtHas(wt, Append(TreePath(d), n))

\* C21: a Rename whose newParent is a node of another tree instance fails with
\* EXDEV and changes neither the working tree nor the children maps
C21_RenameCrossDevice ==
  [][(Called("Rename") /\ last'.np = Foreign)
       => (last'.errno = EXDEV /\ wt' = wt /\ children' = children)]_vars

\* C22: Create and Mkdir that fail in the working tree return EIO, link no child
\* and emit no event; when they succeed the working tree has the entry, the
\* directory has exactly one more child, under the name, which is an empty clean
\* file (an empty directory), and exactly one create (mkdir) event is emitted
\* and queued for the full path
C22_CreateMkdir ==
  [][\A made \in {<<"Create", "file", "create">>, <<"Mkdir", "dir", "mkdir">>} :
       LET op == made[1]
           k == made[2]
           ev == made[3]
       IN
       Called(op) =>
         LET d == last'.node
             name == last'.name
             p == Append(TreePath(d), name)
         IN IF last'.errno # OK
            THEN /\ last'.errno = EIO
                 /\ children' = children /\ kind' = kind
                 /\ last'.events = << >> /\ changes' = changes
            ELSE /\ name \notin DOMAIN children[d]
                 /\ WtHas(wt', p) /\ WtIsDir(wt', p) = (k = "dir")
                 /\ Len(kind') = Len(kind) + 1
                 /\ DOMAIN children'[d] = DOMAIN children[d] \cup {name}
                 /\ children'[d][name] = Len(kind')
                 /\ \A n \in NodeIds : \A c \in DOMAIN children[n] : children'[n][c] = children[n][c]
                 /\ \A n \in NodeIds \ {d} : DOMAIN children'[n] = DOMAIN children[n]
                 /\ kind'[Len(kind')] = k
                 /\ content'[Len(kind')] = << >> /\ dirty'[Len(kind')] = FALSE
                 /\ DOMAIN children'[Len(kind')] = {}
                 /\ last'.events = <<Event(p, ev)>>
                 /\ changes' = Append(changes, Notification(p, ev, now))]_vars
\* a Create has failed in a directory that a successful Mkdir made
C22_Witness ==
  /\ last.op = "Create" /\ last.errno = EIO /\ last.node # Root
  /\ \E i \in 1..Len(changes) : changes[i] = Notification(path[last.node], "mkdir", 0)

\* C23: Unlink of a name removes the working-tree entry and then the child link:
\* it returns ENOENT when the entry is absent and EIO on another failure of the
\* removal, and then leaves the children maps and the queue as they were; when
\* it succeeds the entry and the child link are gone, every other link is kept
\* and one delete event is emitted and queued for the path
C23_Remove ==
  [][Called("Unlink") =>
       LET d == last'.node
           name == last'.name
           p == Append(TreePath(d), name)
       IN IF ~WtHas(wt, p)
          THEN /\ last'.errno = ENOENT
               /\ children' = children /\ last'.events = << >> /\ changes' = changes
          ELSE IF last'.wtErr
          THEN /\ last'.errno = EIO
               /\ children' = children /\ last'.events = << >> /\ changes' = changes
          ELSE /\ last'.errno = OK
               /\ ~WtHas(wt', p)
               /\ children' = [children EXCEPT ![d] = MapDel(@, name)]
               /\ name \notin DOMAIN children'[d]
               /\ last'.events = <<Event(p, "delete")>>
               /\ changes' = Append(changes, Notification(p, "delete", now))]_vars
\* an Unlink has found the entry absent from the working tree, after an Unlink
\* of the same name of the same subdirectory that removed it
C23_Witness ==
  /\ last.op = "Unlink" /\ last.errno = ENOENT /\ last.node # Root
  /\ \E i \in 1..Len(changes) :
       changes[i] = Notification(Append(path[last.node], last.name), "delete", 0)

\* C24: Readdir of a directory returns the names of the children map of the
\* directory, each once and none missing
C24_ListIsChildren ==
  [][Called("Readdir") =>
       /\ {last'.out[i] : i \in 1..Len(last'.out)} = DOMAIN children[last'.node]
       /\ Len(last'.out) = Cardinality(DOMAIN children[last'.node])]_vars

\* C25: Write(o, d) on a buffer of length n gives a buffer of length
\* max(n, o + len(d)) that holds d at [o, o + len(d)), the old bytes everywhere
\* else below n and zeros in the gap [n, o); the node is dirty afterwards, every
\* other buffer, the working tree and the queue are untouched; and a Write that
\* starts where the Write before it on the same file ended leaves the two data
\* one after the other
C25_WriteFrame ==
  [][Called("Write") =>
       LET f == last'.node
           o == last'.off
           d == last'.data
           n == Len(content[f])
           new == content'[f]
       IN /\ Len(new) = (IF n > o + Len(d) THEN n ELSE o + Len(d))
          /\ \A i \in 1..Len(new) :
               new[i] = IF i > o /\ i <= o + Len(d) THEN d[i - o]
                        ELSE IF i <= n THEN content[f][i] ELSE 0
          /\ dirty'[f]
          /\ \A g \in NodeIds \ {f} : content'[g] = content[g] /\ dirty'[g] = dirty[g]
          /\ wt' = wt /\ changes' = changes /\ last'.events = << >>
          /\ (last.op = "Write" /\ last.node = f /\ o = last.off + Len(last.data))
               => SubSeq(new, last.off + 1, o + Len(d)) = last.data \o d]_vars
\* two bytes were written at 0 and then two bytes at 2 of the file "a"
C25_Witness ==
  /\ last.op = "Write" /\ last.node = 2 /\ last.off = 2 /\ last.data = <<2, 1>>
  /\ content[2] = <<2, 1, 2, 1>>

\* C26: Read(off, n) returns the bytes of the buffer from off up to
\* min(off + n, len) in their order, nothing when off is at or past the end, and
\* never an error; no buffer and no dirty flag changes
C26_ReadClamped ==
  [][Called("Read") =>
       LET f == last'.node
           o == last'.off
           len == Len(content[f])
           end == IF o + last'.n < len THEN o + last'.n ELSE len
       IN /\ last'.errno = OK
          /\ Len(last'.out) = (IF o >= len THEN 0 ELSE end - o)
          /\ \A i \in 1..Len(last'.out) : last'.out[i] = content[f][o + i]
          /\ content' = content /\ dirty' = dirty]_vars
\* a Read of two bytes at offset 1 of the file "a", which a Write has changed,
\* got the one byte there is
C26_Witness ==
  /\ last.op = "Read" /\ last.node = 2 /\ last.off = 1 /\ last.n = 2 /\ last.errno = OK
  /\ content[2] = <<2, 1>> /\ last.out = <<1>>

\* C27: Setattr with size s on a buffer of length n leaves the first s bytes of
\* the buffer when s < n, the buffer followed by s - n zeros when s > n, and
\* the buffer as it was when s = n
C27_Truncation ==
  [][(Called("Setattr") /\ last'.size >= 0) =>
       LET f == last'.node
           s == last'.size
           n == Len(content[f])
       IN /\ Len(content'[f]) = s
          /\ \A i \in 1..s : content'[f][i] = IF i <= n THEN content[f][i] ELSE 0
          /\ s = n => content'[f] = content[f]
          /\ \A g \in NodeIds \ {f} : content'[g] = content[g]]_vars
\* the one-byte file "b/a" was extended to three bytes after the two-byte file
\* "a" was cut to one
C27_Witness ==
  /\ last.op = "Setattr" /\ last.node = 4 /\ last.size = 3
  /\ content[4] = <<2, 0, 0>> /\ content[2] = <<1>>

\* C28: Setattr with a size marks the node dirty, also when the size is the
\* length the buffer has; Setattr without a size changes neither the buffer nor
\* the dirty flag; neither writes to the working tree or emits an event
C28_SetattrFrame ==
  [][Called("Setattr") =>
       LET f == last'.node
       IN /\ last'.size >= 0 => dirty'[f]
          /\ last'.size < 0 => (content' = content /\ dirty' = dirty)
          /\ \A g \in NodeIds \ {f} : dirty'[g] = dirty[g]
          /\ wt' = wt /\ changes' = changes /\ last'.events = << >>
          /\ last'.errno = OK]_vars
\* a Setattr with the size the buffer already had has marked a clean node
C28_Witness ==
  /\ last.op = "Setattr" /\ last.node = 2 /\ last.size = 2 /\ nops = 1
  /\ content[2] = <<1, 2>> /\ dirty[2]

\* C29: Unlink of a file node leaves the node with an empty buffer and not
\* dirty, whether it was dirty or clean before, emits exactly one delete event
\* for the path of the node, and neither removes the working-tree entry nor
\* detaches the node from its parent
C29_FileUnlinkClears ==
  [][Called("FileUnlink") =>
       LET f == last'.node
       IN /\ content'[f] = << >> /\ ~dirty'[f]
          /\ last'.events = <<Event(path[f], "delete")>>
          /\ wt' = wt /\ children' = children]_vars

\* C30: the channel changes only by a send that appends the notification of a
\* caller at its end and by a receive of Run that takes the oldest one out, so
\* the notifications are consumed in the order they were accepted; every
\* emitted notification is at any time exactly one of: still with its caller,
\* in the channel, consumed, dropped; and a notification dropped on the full
\* channel is kept nowhere, neither in the channel nor with its caller
C30_ConsumedOnceInOrder ==
  [][/\ hist'.consumed # hist.consumed =>
          /\ hist'.consumed = hist.consumed + 1
          /\ changes # << >> /\ changes' = Tail(changes)
          /\ lastChangeTime' = Head(changes).Time /\ isDirty'
          /\ UNCHANGED stamped
     /\ (changes' # changes /\ hist'.consumed = hist.consumed) =>
          \E c \in Callers :
            /\ stamped[c] # NoStamp /\ Len(changes) < ChanCap
            /\ changes' = Append(changes, stamped[c])
            /\ stamped' = [stamped EXCEPT ![c] = NoStamp]
            /\ hist'.dropped = hist.dropped
     /\ hist'.dropped # hist.dropped =>
          \E c \in Callers :
            /\ stamped[c] # NoStamp /\ Len(changes) = ChanCap
            /\ hist'.dropped = hist.dropped + 1
            /\ changes' = changes
            /\ stamped' = [stamped EXCEPT ![c] = NoStamp]
     /\ hist'.emitted = hist'.consumed + Len(changes') + hist'.dropped
                           + Cardinality({c \in Callers : stamped'[c] # NoStamp})]_vars
\* a notification was dropped, and Run has since consumed all the ChanCap
\* notifications that were in the channel
C30_Witness == hist.dropped >= 1 /\ hist.consumed > ChanCap /\ changes = << >>

\* C31: after the walk of the mount every entry of the working tree has exactly
\* one node, attached at the path of the entry and of the kind of the entry;
\* every node is attached, under one parent, at the path of an entry; every file
\* node holds the content of its entry and is not dirty; and no notification
\* was built or queued, so the manager is clean
C31_MountMirrors ==
  phase = "mounted" =>
    /\ \A p \in DOMAIN wt :
         /\ Cardinality({n \in Attached : TreePath(n) = p}) = 1
         /\ \A n \in Attached : TreePath(n) = p =>
              /\ path[n] = p
              /\ (kind[n] = "file") = ~wt[p].isDir
              /\ kind[n] = "file" => (content[n] = wt[p].data /\ ~dirty[n])
    /\ \A n \in NodeIds :
         /\ n \in Attached /\ TreePath(n) \in DOMAIN wt
         /\ Cardinality(ParentsOf(children, n)) = IF n = Root THEN 0 ELSE 1
    /\ Len(kind) = Cardinality(DOMAIN wt)
    /\ changes = << >> /\ ~isDirty /\ hist.emitted = 0
    /\ \A c \in Callers : stamped[c] = NoStamp
\* a checkout with a file in each of two directories and none at the top is mounted
C31_Witness ==
  /\ phase = "mounted" /\ Len(kind) = 5
  /\ DOMAIN wt = {<< >>, <<"a">>, <<"b">>, <<"a", "b">>, <<"b", "a">>}
  /\ wt[<<"a", "b">>] = FileEntry(<<2, 1>>) /\ wt[<<"b", "a">>] = FileEntry(<<1>>)

\* C32: an Fsync of a dirty node that fails in the working tree, at OpenFile or
\* at Write, returns EIO, leaves the node dirty and every buffer as it was and
\* emits no event; and the Fsync of the same node that follows such a failure
\* and succeeds leaves the whole buffer at the path and emits the write event
C32_FsyncFailureKeepsDirty ==
  [][Called("Fsync") =>
       LET f == last'.node
       IN /\ (dirty[f] /\ last'.errno # OK) =>
               /\ last'.errno = EIO
               /\ dirty' = dirty /\ content' = content
               /\ last'.events = << >> /\ changes' = changes
          /\ (last.op = "Fsync" /\ last.node = f /\ last.errno = EIO /\ last'.errno = OK) =>
               /\ wt'[path[f]] = FileEntry(content[f])
               /\ ~dirty'[f]
               /\ last'.events = <<Event(path[f], "write")>>]_vars
\* a Write in an Fsync has failed after the truncation, having stored one byte
\* of the two-byte buffer: the node is dirty and the entry is short
C32_Witness ==
  /\ last.op = "Fsync" /\ last.errno = EIO /\ dirty[last.node]
  /\ Len(content[last.node]) = 2
  /\ wt[path[last.node]] = FileEntry(SubSeq(content[last.node], 1, 1))

\* C33: an Fsync through a handle of a file node that Unlink has removed from its
\* directory emits no event and leaves the path of the node absent from the
\* working tree when it was absent
C33_RemovedStaysRemoved ==
  [][(Called("Fsync") /\ last'.node \notin Attached) =>
       /\ last'.events = << >>
       /\ ~WtHas(wt, path[last'.node]) => ~WtHas(wt', path[last'.node])]_vars

\* C34: a handler call that returns an error emits no event; every event that a
\* call emits is of kind create, write, delete, mkdir or rmdir, is queued with
\* the time of the call, and describes a change the working tree has when the
\* call returns (the entry is there, is a directory, holds the buffer, is gone);
\* a successful Create, Mkdir, Unlink, Rmdir and dirty Fsync emit exactly one
\* event, of kind create, mkdir, delete, rmdir and write; and no step of Run or
\* SyncToGit changes the working tree, so the cycle that follows sees the change
C34_EventsFollowMutation ==
  [][/\ nops' = nops => wt' = wt
     /\ nops' # nops =>
       /\ last'.errno # OK => (last'.events = << >> /\ changes' = changes)
       /\ \A i \in 1..Len(last'.events) :
            LET e == last'.events[i]
            IN /\ e.Operation \in {"create", "write", "delete", "mkdir", "rmdir"}
               /\ CASE e.Operation = "create" -> WtHas(wt', e.Path)
                      [] e.Operation = "mkdir" -> WtIsDir(wt', e.Path)
                      [] e.Operation = "write" ->
                           WtHas(wt', e.Path) /\ wt'[e.Path] = FileEntry(content'[last'.node])
                      [] OTHER -> ~WtHas(wt', e.Path)
       /\ changes' = changes \o [i \in 1..Len(last'.events) |->
                                   Notification(last'.events[i].Path, last'.events[i].Operation, now)]
       /\ last'.errno = OK =>
            Len(last'.events) =
              CASE last'.op \in {"Create", "Mkdir", "Unlink", "Rmdir", "FileUnlink"} -> 1
                [] last'.op = "Fsync" -> (IF dirty[last'.node] THEN 1 ELSE 0)
                [] last'.op = "Rename" -> 2
                [] OTHER -> 0
       /\ (last'.errno = OK /\ last'.events # << >>) =>
            last'.events[1].Operation =
              CASE last'.op = "Create" -> "create"
                [] last'.op = "Mkdir" -> "mkdir"
                [] last'.op = "Rmdir" -> "rmdir"
                [] last'.op = "Fsync" -> "write"
                [] OTHER -> "delete"]_vars
\* C34 as the code has it: the same for every handler but the Unlink of a file
\* node, whose one delete event describes no change of the working tree
C34_EventsFollowMutationButFileUnlink ==
  [][/\ nops' = nops => wt' = wt
     /\ nops' # nops =>
       /\ last'.errno # OK => (last'.events = << >> /\ changes' = changes)
       /\ \A i \in 1..Len(last'.events) :
            LET e == last'.events[i]
            IN /\ e.Operation \in {"create", "write", "delete", "mkdir", "rmdir"}
               /\ last'.op # "FileUnlink" =>
                    CASE e.Operation = "create" -> WtHas(wt', e.Path)
                      [] e.Operation = "mkdir" -> WtIsDir(wt', e.Path)
                      [] e.Operation = "write" ->
                           WtHas(wt', e.Path) /\ wt'[e.Path] = FileEntry(content'[last'.node])
                      [] OTHER -> ~WtHas(wt', e.Path)
       /\ changes' = changes \o [i \in 1..Len(last'.events) |->
                                   Notification(last'.events[i].Path, last'.events[i].Operation, now)]
       /\ last'.errno = OK =>
            Len(last'.events) =
              CASE last'.op \in {"Create", "Mkdir", "Unlink", "Rmdir", "FileUnlink"} -> 1
                [] last'.op = "Fsync" -> (IF dirty[last'.node] THEN 1 ELSE 0)
                [] last'.op = "Rename" -> 2
                [] OTHER -> 0
       /\ (last'.errno = OK /\ last'.events # << >>) =>
            last'.events[1].Operation =
              CASE last'.op = "Create" -> "create"
                [] last'.op = "Mkdir" -> "mkdir"
                [] last'.op = "Rmdir" -> "rmdir"
                [] last'.op = "Fsync" -> "write"
                [] OTHER -> "delete"
       /\ last'.op = "FileUnlink" => wt' = wt]_vars
\* a directory was removed while SyncToGit was in its push, in the cycle that
\* followed the one event Run has consumed
C34_Witness ==
  /\ last.op = "Rmdir" /\ last.errno = OK /\ last.events = <<Event(<<"b">>, "rmdir")>>
  /\ pcRun = "push" /\ hist.consumed = 1 /\ ~WtHas(wt, <<"b">>)

\* C35: at most one call of SyncToGit is past its dirty check at any time, and
\* the call that is holds m.mu until it returns: no step of one call is taken
\* while another call is past its check, and Run records a consumed event (the
\* write of isDirty and lastChangeTime) only while no call is past its check
C35_OneCycleInFlight ==
  [][LET Who == {RunLoop} \cup SyncCallers
     IN /\ Cardinality({w \in Who : InSync(w)'}) <= 1
        /\ \A w \in Who : InSync(w)' => mgrMu' = w
        /\ \A w \in Who : (InSync(w) /\ SyncPcOf(w)' # SyncPcOf(w)) =>
             \A v \in Who \ {w} : ~InSync(v) /\ ~InSync(v)'
        /\ (isDirty' # isDirty \/ lastChangeTime' # lastChangeTime) =>
             \/ \E w \in Who : InSync(w) /\ SyncPcOf(w) = "push" /\ ~InSync(w)'
             \/ pcRun = "recv" /\ \A w \in Who : ~InSync(w)]_vars
\* a caller of SyncToGit is in its push and holds m.mu while Run, which has found
\* the sync due, waits at the lock of its own call
C35_Witness ==
  /\ \E c \in SyncCallers : syncPc[c] = "push" /\ mgrMu = c
  /\ pcRun = "lock"
  /\ isDirty

\* C36: a call of SyncToGit reaches its commit only from a stage-all that
\* succeeded and its push only from the commit that succeeded (by way of the
\* credentials); a step that fails ends the call (the process, when it is the
\* credentials) with no commit and no push made by it; a cycle makes at most one commit; isDirty is reset only by the push
\* that succeeds; and a call that finds the manager clean returns without a
\* step: no commit, no push, the flag as it was
C36_CycleOrder ==
  [][/\ \A w \in {RunLoop} \cup SyncCallers :
          LET pc == SyncPcOf(w)
              to == SyncPcOf(w)'
          IN /\ (to = "commit" /\ pc # to) => pc = "add" /\ hist'.failures = hist.failures
             /\ (to = "auth" /\ pc # to) =>
                  pc = "commit" /\ hist'.commits = hist.commits + 1 /\ ~hist.committed
             /\ (to = "push" /\ pc # to) => pc = "auth" /\ hist.committed
             /\ (InSync(w) /\ hist'.failures # hist.failures) =>
                  /\ ~InSync(w)' \/ pcRun' = "exited"
                  /\ hist'.commits = hist.commits /\ hist'.pushes = hist.pushes
                  /\ isDirty' = isDirty
             /\ (pc = "lock" /\ pc # to /\ ~isDirty) =>
                  /\ ~InSync(w)' /\ to \in {"idle", "select"}
                  /\ hist' = [hist EXCEPT !.skipped = @ + 1]
                  /\ ~isDirty' /\ mgrMu' = mgrMu
     /\ hist'.commits # hist.commits =>
          \E w \in {RunLoop} \cup SyncCallers : SyncPcOf(w) = "commit" /\ SyncPcOf(w)' = "auth"
     /\ hist'.pushes # hist.pushes =>
          /\ hist'.pushes = hist.pushes + 1 /\ hist.committed
          /\ \E w \in {RunLoop} \cup SyncCallers : SyncPcOf(w) = "push" /\ ~InSync(w)'
     /\ (isDirty /\ ~isDirty') => hist'.pushes = hist.pushes + 1]_vars
\* one cycle has staged, committed and pushed, and another call of SyncToGit
\* has found the manager clean and returned
C36_Witness ==
  /\ hist.cycles = 1 /\ hist.commits = 1 /\ hist.pushes = 1 /\ hist.failures = 0
  /\ hist.skipped = 1
  /\ ~isDirty
  /\ \A w \in {RunLoop} \cup SyncCallers : ~InSync(w)

\* C37: lastChangeTime never decreases, and after Run has consumed an event it
\* is the largest timestamp among the events consumed so far
C37_LastChangeTimeMonotone ==
  [][/\ lastChangeTime' >= lastChangeTime
     /\ hist'.consumed # hist.consumed =>
          lastChangeTime' = (IF Head(changes).Time > lastChangeTime
                             THEN Head(changes).Time ELSE lastChangeTime)]_vars

\* C38: for every file node of the tree, the size Getattr reports is the length
\* of the buffer, which is the number of bytes a Read from offset 0 returns when
\* it asks for more than the buffer holds
C38_GetattrSizeIsBufferLength ==
  phase = "mounted" =>
    \A f \in AttachedFiles :
      /\ GetattrSize(wt, path[f], content[f], dirty[f]) = Len(content[f])
      /\ Len(ReadBuf(content[f], 0, Len(content[f]) + 1)) = Len(content[f])
      /\ (last.op = "Getattr" /\ last.node = f) => last.out = <<Len(content[f])>>

====
